---------------------------- MODULE Spec2Model ----------------------------
(***************************************************************************)
(* A model of autograder_sandbox: the controller (AutograderSandbox in     *)
(* autograder_sandbox.py), the in-container runner (cmd_runner.py) and the *)
(* container engine the controller drives through `docker ...` calls.      *)
(*                                                                         *)
(* Python values: an Optional[int] is a sequence, <<>> for None and <<v>>  *)
(* for v.  A raised exception is the name of its class, "none" when the    *)
(* call returned.                                                          *)
(***************************************************************************)
EXTENDS Integers, Sequences, FiniteSets, TLC

VARIABLES
    cfg,                    \* the constructor's timeouts (__init__)
    is_running,             \* self._is_running
    allow_network_access,   \* self._allow_network_access
    container,              \* the engine's state of the container named self.name
    files,                  \* the files callers have added to that container's working dir
    scope,                  \* "out" or "in": whether the caller is inside `with sandbox:`
    op,                     \* the operation the caller has invoked and not yet left
    exc,                    \* the exception that operation raised, NoExc if none
    calls,                  \* the engine calls that operation issued, in order
    hooks,                  \* the _mocking_hook('reaping_failed') calls of that operation
    signals,                \* the signals that operation sent to the exec call's process group
    pc,                     \* the position of the caller inside run_command
    cmd,                    \* the arguments of the run_command call in progress
    docker_exec,            \* the `docker exec` client process started by Popen
    exec_rc,                \* the exit status of that client
    runner,                 \* the cmd_runner.py process the exec call started in the container
    runner_stdout,          \* the bytes captured in run_command's runner_stdout file
    runner_stderr,          \* the bytes captured in run_command's runner_stderr file
    timed_out,              \* run_command's local timed_out
    return_code,            \* run_command's local return_code
    result,                 \* the CompletedCommand run_command returned, None if it did not
    error,                  \* the SandboxCommandError run_command raised: [cmd, result]
    args,                   \* cmd_runner.py main(): the Namespace parse_args() returned
    process,                \* main(): the target started by subprocess.Popen
    procs,                  \* the processes alive in the container besides the runner
    target,                 \* how far the target has got: bytes written, child forked
    main_stdout,            \* main(): the NamedTemporaryFile the target's stdout goes to
    main_stderr,            \* main(): the NamedTemporaryFile the target's stderr goes to
    main_timed_out,         \* main(): timed_out
    main_return_code,       \* main(): return_code
    killed,                 \* the process groups main() has sent SIGKILL to
    sys_stdout,             \* the bytes main() has written to its own stdout
    main_exc,               \* the exception that has left main(), NoExc if none
    sys_stderr,             \* the bytes the interpreter has written to the runner's stderr
    preexec_calls,          \* the calls set_subprocess_rlimits has made in the forked child
    target_cred,            \* the identity and limits the target was executed with, None before
    runner_cred,            \* the identity and limits of the runner's own process
    pid_order,              \* the host's processes by ascending pid, as started
    table,                  \* the host's process table: the processes that have not exited
    search_token,           \* reap.py: args.search_for
    reap_pc,                \* the position of the reaper in reap.py
    parent_proc,            \* _reap(): the process _find_process returned
    children,               \* _kill_proc_descendents(): children
    to_signal,              \* the processes the loop in progress has yet to signal
    alive,                  \* _kill_proc_descendents(): alive, from wait_procs
    waited,                 \* the seconds wait_procs has waited
    sent,                   \* the signals the reaper has sent, in order
    pending,                \* the processes a SIGTERM has reached that have not acted on it
    reap_exc                \* the exception that has left the reaper's main(), NoExc if none

vars == <<cfg, is_running, allow_network_access, container, files, scope, op, exc, calls, hooks,
          signals, pc, cmd, docker_exec, exec_rc, runner, runner_stdout, runner_stderr,
          timed_out, return_code, result, error, args, process, procs, target,
          main_stdout, main_stderr, main_timed_out, main_return_code, killed, sys_stdout,
          main_exc, sys_stderr, preexec_calls, target_cred, runner_cred, pid_order, table, search_token, reap_pc, parent_proc, children,
          to_signal, alive, waited, sent, pending, reap_exc>>

\* the state of cmd_runner.py's main() past parse_args()
main_vars == <<args, process, procs, target, main_stdout, main_stderr, main_timed_out,
               main_return_code, killed, sys_stdout, main_exc, sys_stderr, preexec_calls,
               target_cred, runner_cred>>

\* the state of the controller and of the engine
controller_vars == <<cfg, is_running, allow_network_access, container, files, scope, op, exc, calls,
                     hooks, signals, pc, cmd, docker_exec, exec_rc, runner_stdout,
                     runner_stderr, timed_out, return_code, result, error>>

\* the state of reap.py and of the host's process table
reaper_vars == <<pid_order, table, search_token, reap_pc, parent_proc, children, to_signal, alive,
                 waited, sent, pending, reap_exc>>

---------------------------------------------------------------------------
(* Python's None and Optional values *)

None == <<>>
Some(v) == <<v>>
Val(o) == o[1]

(* Exception classes of autograder_sandbox.py and of subprocess *)

NoExc == "none"

\* class SandboxError(Exception) and its subclasses
SandboxErrorClasses ==
    {"SandboxError", "SandboxCommandError", "CriticalSandboxError", "SandboxNotStopped",
     "SandboxNotDestroyed"}

\* class CriticalSandboxError(SandboxError); class SandboxNotStopped(CriticalSandboxError)
CriticalClasses == {"CriticalSandboxError", "SandboxNotStopped"}

\* what `except (subprocess.TimeoutExpired, subprocess.CalledProcessError)` catches
SubprocessErrors == {"TimeoutExpired", "CalledProcessError"}

\* what `except Exception` catches
ExceptionClasses == SubprocessErrors \cup SandboxErrorClasses \cup {"ValueError"}

---------------------------------------------------------------------------
(* The container engine, as seen through one `docker ...` call run by      *)
(* subprocess.run(cmd, timeout=..., check=True).  The call                 *)
(*   "ok"      exits 0 after the engine did what was asked,                *)
(*   "fail"    exits nonzero and the engine did nothing,                   *)
(*   "timeout" is killed at the timeout and the engine did nothing,        *)
(*   "late"    is killed at the timeout but the engine still did it.       *)

Outcomes == {"ok", "fail", "timeout", "late"}

Done(o) == o \in {"ok", "late"}

\* The exception subprocess.run raises for an outcome
Raised(o) ==
    CASE o = "ok" -> NoExc
      [] o = "fail" -> "CalledProcessError"
      [] OTHER -> "TimeoutExpired"

\* What the engine requires to carry out a call
EngineAccepts(c, what) ==
    CASE what = "create" -> c = "absent"
      [] what = "cp" -> c # "absent"
      [] what = "start" -> c # "absent"
      [] what = "exec" -> c = "running"
      [] what = "stop" -> c # "absent"
      [] what = "rm" -> c # "absent"
      [] OTHER -> TRUE

\* The container's state after the engine carried out a call
EngineEffect(c, what) ==
    CASE what = "create" -> "created"
      [] what = "start" -> "running"
      [] what = "stop" -> IF c = "running" THEN "exited" ELSE c
      [] what = "rm" -> "absent"
      [] OTHER -> c

\* The files added to the container after the engine carried out a call: they go
\* with the container, and a new container has none
FilesEffect(f, what) == IF what \in {"create", "rm"} THEN {} ELSE f

\* The outcomes one call can have: it times out only when given a timeout
Possible(c, what, timeout) ==
    {o \in Outcomes : /\ Done(o) => EngineAccepts(c, what)
                      /\ o \in {"timeout", "late"} => timeout # None}

---------------------------------------------------------------------------
(* A process of the container: where it is in its program, and its argv *)
NoProcess == [at |-> "none", argv |-> <<>>]

(* Sequencing of Python statements over the set of states a statement can  *)
(* leave: a raised exception skips the statements that follow.             *)

Then(S, F(_)) == UNION {IF s.exc = NoExc THEN F(s) ELSE {s} : s \in S}

\* try: S  except <classes>: H
Except(S, classes, H(_)) ==
    UNION {IF s.exc \in classes THEN H([s EXCEPT !.exc = NoExc]) ELSE {s}
           : s \in S}

\* _subprocess_helper(cmd, timeout=timeout, error_msg_prefix=..., reraise_as=...)
_subprocess_helper(s, what, arg, timeout, reraise_as) ==
    {[s EXCEPT !.container = IF Done(o) THEN EngineEffect(s.container, what) ELSE @,
               !.files = IF Done(o) THEN FilesEffect(s.files, what) ELSE @,
               !.runner = IF Done(o) /\ what \in {"stop", "rm"} THEN NoProcess ELSE @,
               !.calls = Append(@, [what |-> what, arg |-> arg, timeout |-> timeout,
                                    raised |-> Raised(o)]),
               !.exc = IF Raised(o) = NoExc THEN NoExc
                       ELSE IF reraise_as # None THEN Val(reraise_as)
                       ELSE Raised(o)]
     : o \in Possible(s.container, what, timeout)}

\* _mocking_hook('reaping_failed')
_mocking_hook(s) == [s EXCEPT !.hooks = @ + 1]

\* _reap(self, search_for)
\* The mutant lets the reaper's failure reach the caller.
_reap_reraises(s, search_for) ==
    Then(_subprocess_helper(s, "reaper", search_for, s.cfg.process_reap_timeout, None),
         LAMBDA t : {t})

_reap(s, search_for) ==
    Except(_subprocess_helper(s, "reaper", search_for, s.cfg.process_reap_timeout, None),
           SubprocessErrors,
           LAMBDA t : {_mocking_hook(t)})

\* _stop(self)
\* The first mutant gives up when the first attempt fails.
_stop_without_retry(s) ==
    Except(
        Then(_subprocess_helper(s, "stop", "10", s.cfg.container_teardown_timeout, None),
             LAMBDA t : {[t EXCEPT !.is_running = FALSE]}),
        SubprocessErrors,
        LAMBDA h : {[h EXCEPT !.exc = "SandboxNotStopped"]})

\* The second mutant retries without reaping.
_stop_without_reap(s) ==
    Except(
        Then(_subprocess_helper(s, "stop", "10", s.cfg.container_teardown_timeout, None),
             LAMBDA t : {[t EXCEPT !.is_running = FALSE]}),
        SubprocessErrors,
        LAMBDA h :
            Except(
                Then(_subprocess_helper(h, "stop", "5", h.cfg.container_teardown_timeout,
                                        None),
                     LAMBDA t : {[t EXCEPT !.is_running = FALSE]}),
                ExceptionClasses,
                LAMBDA t : {[t EXCEPT !.exc = "SandboxNotStopped"]}))

\* The fourth mutant calls the reaper before the first attempt.
_stop_reaps_first(s) ==
    Then(_reap(s, "main_process_script"), LAMBDA r : _stop_without_reap(r))

\* The third mutant clears the flag when both attempts have failed.
_stop_clears_flag(s) ==
    Except(
        Then(_subprocess_helper(s, "stop", "10", s.cfg.container_teardown_timeout, None),
             LAMBDA t : {[t EXCEPT !.is_running = FALSE]}),
        SubprocessErrors,
        LAMBDA h :
            Except(
                Then(Then(_reap(h, "main_process_script"),
                          LAMBDA t : _subprocess_helper(
                                         t, "stop", "5", t.cfg.container_teardown_timeout, None)),
                     LAMBDA t : {[t EXCEPT !.is_running = FALSE]}),
                ExceptionClasses,
                LAMBDA t : {[t EXCEPT !.exc = "SandboxNotStopped", !.is_running = FALSE]}))

_stop(s) ==
    Except(
        Then(_subprocess_helper(s, "stop", "10", s.cfg.container_teardown_timeout, None),
             LAMBDA t : {[t EXCEPT !.is_running = FALSE]}),
        SubprocessErrors,
        LAMBDA h :
            Except(
                Then(Then(_reap(h, "main_process_script"),
                          LAMBDA t : _subprocess_helper(
                                         t, "stop", "5", t.cfg.container_teardown_timeout, None)),
                     LAMBDA t : {[t EXCEPT !.is_running = FALSE]}),
                ExceptionClasses,
                LAMBDA t : {[t EXCEPT !.exc = "SandboxNotStopped"]}))

\* _destroy(self)
\* The mutant stops the container and leaves it in place.
_destroy_without_rm(s) ==
    Then(_stop(s), LAMBDA t : {[t EXCEPT !.is_running = FALSE]})

\* The third mutant removes the container without stopping it.
_destroy_without_stop(s) ==
    Then(_subprocess_helper(s, "rm", "-f", s.cfg.container_teardown_timeout,
                            Some("SandboxNotDestroyed")),
         LAMBDA t : {[t EXCEPT !.is_running = FALSE]})

\* The second mutant reports a failed removal as a critical error.
_destroy_rm_critical(s) ==
    Then(Then(_stop(s),
              LAMBDA t : _subprocess_helper(t, "rm", "-f", t.cfg.container_teardown_timeout,
                                            Some("CriticalSandboxError"))),
         LAMBDA t : {[t EXCEPT !.is_running = FALSE]})

_destroy(s) ==
    Then(Then(_stop(s),
              LAMBDA t : _subprocess_helper(t, "rm", "-f", t.cfg.container_teardown_timeout,
                                            Some("SandboxNotDestroyed"))),
         LAMBDA t : {[t EXCEPT !.is_running = FALSE]})

\* _create_and_start(self)
\* The mutant tears down after a failed create as well.
_create_and_start_destroys_after_create(s) ==
    LET net == IF s.allow_network_access THEN "net" ELSE "--net none"
        guarded(S) ==
            UNION {IF u.exc = NoExc THEN {u}
                   ELSE {IF d.exc = NoExc THEN [d EXCEPT !.exc = u.exc] ELSE d
                         : d \in _destroy([u EXCEPT !.exc = NoExc])}
                   : u \in S}
        steps(t) ==
            Then(Then(Then(
                _subprocess_helper(t, "cp", "main_process_script",
                                   t.cfg.container_setup_timeout, Some("SandboxError")),
                LAMBDA u : _subprocess_helper(u, "start", "create_and_start",
                                              u.cfg.container_create_timeout,
                                              Some("SandboxError"))),
                LAMBDA u : guarded(
                    Then(_subprocess_helper(u, "cp", "cmd_runner.py",
                                            u.cfg.container_setup_timeout,
                                            Some("SandboxError")),
                         LAMBDA v : _subprocess_helper(v, "exec", "chmod 555",
                                                       v.cfg.container_setup_timeout,
                                                       Some("SandboxError"))))),
                LAMBDA u : {[u EXCEPT !.is_running = TRUE]})
    IN  Then(guarded(_subprocess_helper(s, "create", net, s.cfg.container_create_timeout,
                                        Some("SandboxError"))),
             steps)

\* The second mutant marks the sandbox as running once the container is started,
\* before the runner is in place.
_create_and_start_marks_early(s) ==
    LET net == IF s.allow_network_access THEN "net" ELSE "--net none"
        setup(t) ==
            Then(_subprocess_helper(t, "cp", "cmd_runner.py", t.cfg.container_setup_timeout,
                                    Some("SandboxError")),
                 LAMBDA u : _subprocess_helper(u, "exec", "chmod 555",
                                               u.cfg.container_setup_timeout,
                                               Some("SandboxError")))
    IN  Then(Then(Then(Then(
            _subprocess_helper(s, "create", net, s.cfg.container_create_timeout,
                               Some("SandboxError")),
            LAMBDA t : _subprocess_helper(t, "cp", "main_process_script",
                                          t.cfg.container_setup_timeout, Some("SandboxError"))),
            LAMBDA t : _subprocess_helper(t, "start", "create_and_start",
                                          t.cfg.container_create_timeout, Some("SandboxError"))),
            LAMBDA t : {[t EXCEPT !.is_running = TRUE]}),
            LAMBDA t :
                UNION {IF u.exc = NoExc THEN {u}
                       ELSE {IF d.exc = NoExc THEN [d EXCEPT !.exc = u.exc] ELSE d
                             : d \in _destroy([u EXCEPT !.exc = NoExc])}
                       : u \in setup(t)})

_create_and_start(s) ==
    LET net == IF s.allow_network_access THEN "net" ELSE "--net none"
        setup(t) ==
            Then(_subprocess_helper(t, "cp", "cmd_runner.py", t.cfg.container_setup_timeout,
                                    Some("SandboxError")),
                 LAMBDA u : _subprocess_helper(u, "exec", "chmod 555",
                                               u.cfg.container_setup_timeout,
                                               Some("SandboxError")))
    IN  Then(Then(Then(Then(
            _subprocess_helper(s, "create", net, s.cfg.container_create_timeout,
                               Some("SandboxError")),
            LAMBDA t : _subprocess_helper(t, "cp", "main_process_script",
                                          t.cfg.container_setup_timeout, Some("SandboxError"))),
            LAMBDA t : _subprocess_helper(t, "start", "create_and_start",
                                          t.cfg.container_create_timeout, Some("SandboxError"))),
            LAMBDA t :
                \* except Exception as e: self._destroy(); raise
                UNION {IF u.exc = NoExc THEN {u}
                       ELSE {IF d.exc = NoExc THEN [d EXCEPT !.exc = u.exc] ELSE d
                             : d \in _destroy([u EXCEPT !.exc = NoExc])}
                       : u \in setup(t)}),
            LAMBDA t : {[t EXCEPT !.is_running = TRUE]})

\* reset(self)
\* The mutant starts a container without destroying the old one.
reset_without_destroy(s) == _create_and_start(s)

reset(s) == Then(_destroy(s), LAMBDA t : _create_and_start(t))

\* restart(self)
\* The mutant replaces the container by a new one.
restart_recreates(s) == reset(s)

restart(s) ==
    Then(_stop(s),
         LAMBDA t : _subprocess_helper(t, "start", "restart", t.cfg.container_create_timeout,
                                       None))

---------------------------------------------------------------------------
(* Bounds of the model *)

\* the largest truncation cap a caller passes
MaxCap == 1

\* the time limit a caller passes to run_command, when it passes one
MaxTimeout == 1

(* The constructor's timeouts: the defaults of __init__ and the values the *)
(* exception-handling tests pass.                                          *)
Configs ==
    {[container_create_timeout |-> None, container_setup_timeout |-> None,
      process_reap_timeout |-> Some(60), container_teardown_timeout |-> Some(30)],
     [container_create_timeout |-> Some(2), container_setup_timeout |-> Some(1),
      process_reap_timeout |-> Some(2), container_teardown_timeout |-> Some(11)]}

(* The commands a caller runs: the argv and what that program does when    *)
(* it is executed: the bytes it writes, its exit status, whether it is     *)
(* still running when `timeout` seconds have passed, and the children it   *)
(* leaves behind.  They follow the programs of tests.py.  Bytes are        *)
(* abstract; "x80" is a byte that is not valid UTF-8.                      *)
Programs ==
    {[args |-> <<"cat", "non-utf.txt">>, stdout |-> <<"x80", "a", "nl">>, stderr |-> <<>>,
      exit_code |-> 0, outlives_timeout |-> FALSE, forks |-> FALSE, detaches |-> FALSE],
     [args |-> <<"touch", "/">>, stdout |-> <<>>, stderr |-> <<"b", "nl">>,
      exit_code |-> 1, outlives_timeout |-> FALSE, forks |-> FALSE, detaches |-> FALSE],
     [args |-> <<"bash", "-c", "cat non-utf.txt; sleep 5">>, stdout |-> <<"x80", "a", "nl">>,
      stderr |-> <<>>,
      exit_code |-> 0, outlives_timeout |-> TRUE, forks |-> TRUE, detaches |-> FALSE],
     [args |-> <<"python3", "prog_that_forks.py">>, stdout |-> <<"a", "nl">>, stderr |-> <<>>,
      exit_code |-> 0, outlives_timeout |-> FALSE, forks |-> TRUE, detaches |-> TRUE]}

Caps == {None} \cup {Some(n) : n \in 0..MaxCap}
Timeouts == {None} \cup {Some(n) : n \in 1..MaxTimeout}

---------------------------------------------------------------------------
(* cmd_runner.py: parse_args().  argparse scans the argv from the left:    *)
(* a declared option is stored, a string that starts with "-" and is no    *)
(* declared option is unrecognized, and the first other string starts the  *)
(* REMAINDER positional cmd_args, which takes every string after it.       *)
(* parse_args() exits with status 2 when a string was unrecognized.        *)

value_options ==
    {"--timeout", "--max_stack_size", "--max_virtual_memory", "--truncate_stdout",
     "--truncate_stderr"}
flag_options == {"--block_process_spawn", "--as_root", "--stdin_devnull"}

\* the strings of the model's argvs that start with "-"
StartsWithDash(tok) == tok \in value_options \cup flag_options \cup {"--cmd_id"}

\* int(tok), for type=int
IntOf(tok) == CHOOSE n \in 0..(MaxCap + MaxTimeout + 1) : ToString(n) = tok

EmptyNamespace ==
    [timeout |-> None, block_process_spawn |-> FALSE, max_stack_size |-> None,
     max_virtual_memory |-> None, truncate_stdout |-> None, truncate_stderr |-> None,
     as_root |-> FALSE, stdin_devnull |-> FALSE, cmd_args |-> <<>>, unrecognized |-> <<>>]

Store(ns, option, value) ==
    CASE option = "--timeout" -> [ns EXCEPT !.timeout = value]
      [] option = "--max_stack_size" -> [ns EXCEPT !.max_stack_size = value]
      [] option = "--max_virtual_memory" -> [ns EXCEPT !.max_virtual_memory = value]
      [] option = "--truncate_stdout" -> [ns EXCEPT !.truncate_stdout = value]
      [] option = "--truncate_stderr" -> [ns EXCEPT !.truncate_stderr = value]
      [] option = "--block_process_spawn" -> [ns EXCEPT !.block_process_spawn = TRUE]
      [] option = "--as_root" -> [ns EXCEPT !.as_root = TRUE]
      [] option = "--stdin_devnull" -> [ns EXCEPT !.stdin_devnull = TRUE]

RECURSIVE ParseFrom(_, _, _)
ParseFrom(argv, i, ns) ==
    IF i > Len(argv) THEN ns
    ELSE IF argv[i] \in flag_options THEN ParseFrom(argv, i + 1, Store(ns, argv[i], TRUE))
    ELSE IF argv[i] \in value_options /\ i < Len(argv)
         THEN ParseFrom(argv, i + 2, Store(ns, argv[i], Some(IntOf(argv[i + 1]))))
    ELSE IF StartsWithDash(argv[i])
         THEN ParseFrom(argv, i + 1, [ns EXCEPT !.unrecognized = Append(@, argv[i])])
    ELSE [ns EXCEPT !.cmd_args = SubSeq(argv, i, Len(argv))]

parse_args(argv) == ParseFrom(argv, 1, EmptyNamespace)

\* parser.error(): what parse_args() writes to stderr before sys.exit(2)
usage_text == <<"a">>
error_text == <<"nl">>

\* what the `docker exec` client writes to stderr when the container is not running
docker_error_text == <<"b">>

---------------------------------------------------------------------------
(* autograder_sandbox.py: run_command *)

\* _chunked_read's chunk_size, 1024 * 16 in the source, scaled to the model's streams
chunk_size == 2

\* _chunked_read(file_obj, amount_to_read): the chunks read, joined as the caller joins them
RECURSIVE ReadChunks(_, _, _, _)
ReadChunks(file, pos, n, size) ==
    IF n = 0 THEN <<>>
    ELSE SubSeq(file, pos + 1, pos + size) \o ReadChunks(file, pos + size, n - 1, size)

_chunked_read(file, amount_to_read) ==
    LET num_reads == amount_to_read \div chunk_size
        remainder == amount_to_read % chunk_size
        whole == ReadChunks(file, 0, num_reads, chunk_size)
    IN  IF remainder # 0
        THEN whole \o SubSeq(file, num_reads * chunk_size + 1,
                             num_reads * chunk_size + remainder)
        ELSE whole

\* lines 531-549: the exec invocation's arguments after the runner's path
RunnerArgv(timeout, cmd_args) ==
    <<"--cmd_id", "cmd_id">>
    \o (IF timeout # None THEN <<"--timeout", ToString(Val(timeout))>> ELSE <<>>)
    \o cmd_args

\* lines 578-590: the length kept of a captured stream and its truncated flag
\* The mutant truncates a stream whose length equals the cap.
Truncation_off_by_one(captured, cap) ==
    IF cap # None /\ Len(captured) >= Val(cap)
    THEN [len |-> Val(cap), truncated |-> TRUE]
    ELSE [len |-> Len(captured), truncated |-> FALSE]

Truncation(captured, cap) ==
    IF cap # None /\ Len(captured) > Val(cap)
    THEN [len |-> Val(cap), truncated |-> TRUE]
    ELSE [len |-> Len(captured), truncated |-> FALSE]

\* lines 578-613: the CompletedCommand built from the captured files
CompletedCommand(rc, to, out, err, ts, te) ==
    [return_code |-> rc,
     timed_out |-> to,
     stdout |-> _chunked_read(out, Truncation(out, ts).len),
     stderr |-> _chunked_read(err, Truncation(err, te).len),
     stdout_truncated |-> Truncation(out, ts).truncated,
     stderr_truncated |-> Truncation(err, te).truncated]

\* line 615: if check and result.return_code != 0
\* The mutant raises only for a command that returned a nonzero code.
ShouldRaise_not_on_timeout(check, res) ==
    check /\ res.return_code # None /\ res.return_code # Some(0)

ShouldRaise(check, res) == check /\ res.return_code # Some(0)

NoCmd == [args |-> <<>>]

---------------------------------------------------------------------------
(* cmd_runner.py: main() past parse_args(), and the target it runs *)

\* the characters of the strings main() prints
Chars(s) ==
    CASE s = "cat" ->
           <<"c", "a", "t">>
      [] s = "non-utf.txt" ->
           <<"n", "o", "n", "-", "u", "t", "f", ".", "t", "x", "t">>
      [] s = "touch" ->
           <<"t", "o", "u", "c", "h">>
      [] s = "/" ->
           <<"/">>
      [] s = "bash" ->
           <<"b", "a", "s", "h">>
      [] s = "-c" ->
           <<"-", "c">>
      [] s = "cat non-utf.txt; sleep 5" ->
           <<"c", "a", "t", " ", "n", "o", "n", "-", "u", "t", "f", ".", "t", "x", "t",
             ";", " ", "s", "l", "e", "e", "p", " ", "5">>
      [] s = "python3" ->
           <<"p", "y", "t", "h", "o", "n", "3">>
      [] s = "prog_that_forks.py" ->
           <<"p", "r", "o", "g", "_", "t", "h", "a", "t", "_", "f", "o", "r", "k", "s",
             ".", "p", "y">>
      [] s = "not_an_exe" ->
           <<"n", "o", "t", "_", "a", "n", "_", "e", "x", "e">>
      [] s = "./spam/echo" ->
           <<".", "/", "s", "p", "a", "m", "/", "e", "c", "h", "o">>
      [] s = "hello" ->
           <<"h", "e", "l", "l", "o">>
      [] s = "./spam" ->
           <<".", "/", "s", "p", "a", "m">>
      [] s = "{\"cmd_args\": [" ->
           <<"{", "\"", "c", "m", "d", "_", "a", "r", "g", "s", "\"", ":", " ", "[">>
      [] s = "\"" ->
           <<"\"">>
      [] s = ", " ->
           <<",", " ">>
      [] s = "], \"return_code\": " ->
           <<"]", ",", " ", "\"", "r", "e", "t", "u", "r", "n", "_", "c", "o", "d", "e",
             "\"", ":", " ">>
      [] s = ", \"timed_out\": " ->
           <<",", " ", "\"", "t", "i", "m", "e", "d", "_", "o", "u", "t", "\"", ":", " ">>
      [] s = ", \"stdout_truncated\": " ->
           <<",", " ", "\"", "s", "t", "d", "o", "u", "t", "_", "t", "r", "u", "n", "c",
             "a", "t", "e", "d", "\"", ":", " ">>
      [] s = ", \"stderr_truncated\": " ->
           <<",", " ", "\"", "s", "t", "d", "e", "r", "r", "_", "t", "r", "u", "n", "c",
             "a", "t", "e", "d", "\"", ":", " ">>
      [] s = "}" ->
           <<"}">>
      [] s = "null" ->
           <<"n", "u", "l", "l">>
      [] s = "true" ->
           <<"t", "r", "u", "e">>
      [] s = "false" ->
           <<"f", "a", "l", "s", "e">>

DigitChars == <<"0", "1", "2", "3", "4", "5", "6", "7", "8", "9">>

\* str(n) for a non-negative int
RECURSIVE Decimal(_)
Decimal(n) ==
    IF n < 10 THEN <<DigitChars[n + 1]>>
    ELSE Decimal(n \div 10) \o <<DigitChars[(n % 10) + 1]>>

\* print(x, flush=True)
print(text) == text \o <<"nl">>

RECURSIVE json_list(_, _)
json_list(strs, i) ==
    IF i > Len(strs) THEN <<>>
    ELSE (IF i > 1 THEN Chars(", ") ELSE <<>>)
         \o Chars("\"") \o Chars(strs[i]) \o Chars("\"") \o json_list(strs, i + 1)

json_bool(b) == IF b THEN Chars("true") ELSE Chars("false")

\* json.dumps(results), lines 100-108
json_dumps(results) ==
    Chars("{\"cmd_args\": [") \o json_list(results.cmd_args, 1)
    \o Chars("], \"return_code\": ")
    \o (IF results.return_code = None THEN Chars("null")
        ELSE Decimal(Val(results.return_code)))
    \o Chars(", \"timed_out\": ") \o json_bool(results.timed_out)
    \o Chars(", \"stdout_truncated\": ") \o json_bool(results.stdout_truncated)
    \o Chars(", \"stderr_truncated\": ") \o json_bool(results.stderr_truncated)
    \o Chars("}")

\* cmd_runner.py's own _chunked_read, lines 144-151
cmd_runner_chunked_read(file_obj, amount_to_read) ==
    LET num_reads == amount_to_read \div chunk_size
        remainder == amount_to_read % chunk_size
        whole == ReadChunks(file_obj, 0, num_reads, chunk_size)
    IN  IF remainder # 0
        THEN whole \o SubSeq(file_obj, num_reads * chunk_size + 1,
                             num_reads * chunk_size + remainder)
        ELSE whole

\* lines 94-99: the sizes of the two files and the truncated flags
Sizes(ns, stdout, stderr) ==
    [stdout_len |-> Len(stdout),
     stdout_truncated |-> ns.truncate_stdout # None /\ Len(stdout) > Val(ns.truncate_stdout),
     stderr_len |-> Len(stderr),
     stderr_truncated |-> ns.truncate_stderr # None /\ Len(stderr) > Val(ns.truncate_stderr)]

\* lines 100-106
Results(ns, rc, to, stdout, stderr) ==
    [cmd_args |-> ns.cmd_args, return_code |-> rc, timed_out |-> to,
     stdout_truncated |-> Sizes(ns, stdout, stderr).stdout_truncated,
     stderr_truncated |-> Sizes(ns, stdout, stderr).stderr_truncated]

\* lines 108-124: everything main() writes to its stdout.  Line 120 prints
\* stderr_len where line 113 prints truncated_stdout_len.
Emitted(ns, rc, to, stdout, stderr) ==
    LET sz == Sizes(ns, stdout, stderr)
        json_data == json_dumps(Results(ns, rc, to, stdout, stderr))
        truncated_stdout_len ==
            IF sz.stdout_truncated THEN Val(ns.truncate_stdout) ELSE sz.stdout_len
        truncated_stderr_len ==
            IF sz.stderr_truncated THEN Val(ns.truncate_stderr) ELSE sz.stderr_len
    IN  print(Decimal(Len(json_data))) \o json_data
        \o print(Decimal(truncated_stdout_len))
        \o cmd_runner_chunked_read(stdout, truncated_stdout_len)
        \o print(Decimal(sz.stderr_len))
        \o cmd_runner_chunked_read(stderr, truncated_stderr_len)

\* the identity and limits of a process the engine starts by `docker exec`: root, no
\* limit set
RootCred == [uid |-> "root", gid |-> "root", rlimits |-> {}]

\* the value the caller passes for a limit
LimitBytes == 1

\* the calls of set_subprocess_rlimits that can fail
HookCalls == {"setgid", "setuid", "RLIMIT_NPROC", "RLIMIT_STACK", "RLIMIT_VMEM", "RLIMIT_AS"}

\* the calls that fail in one run of the hook: none, one of them, or RLIMIT_VMEM on
\* a platform that has none together with one more
HookFailures ==
    {{}} \cup {{c} : c \in HookCalls} \cup {{"RLIMIT_VMEM", c} : c \in HookCalls}

\* one call of the hook: skipped once an exception is on its way, raised when it
\* fails, recorded when it is made
HookCall(h, call, arg, failing) ==
    IF h.exc # NoExc THEN h
    ELSE IF call \in failing THEN [h EXCEPT !.exc = "Exception"]
    ELSE [h EXCEPT !.calls = Append(@, [call |-> call, arg |-> arg])]

\* lines 24-51: set_subprocess_rlimits(), the calls it makes and the exception it
\* raises
\* The first mutant switches the user before the group.
set_subprocess_rlimits_user_first(ns, failing) ==
    LET h0 == [calls |-> <<>>, exc |-> NoExc]
        h1 == IF ~ns.as_root
              THEN HookCall(HookCall(h0, "setuid", "autograder", failing),
                            "setgid", "autograder", failing)
              ELSE h0
        h2 == IF ns.block_process_spawn THEN HookCall(h1, "RLIMIT_NPROC", 0, failing) ELSE h1
        h3 == IF ns.max_stack_size # None
              THEN HookCall(h2, "RLIMIT_STACK", Val(ns.max_stack_size), failing)
              ELSE h2
    IN  IF ns.max_virtual_memory # None /\ h3.exc = NoExc
        THEN IF "RLIMIT_VMEM" \in failing
             THEN HookCall(h3, "RLIMIT_AS", Val(ns.max_virtual_memory), failing)
             ELSE HookCall(h3, "RLIMIT_VMEM", Val(ns.max_virtual_memory), failing)
        ELSE h3

\* The second mutant ends the hook normally when a call has failed.
set_subprocess_rlimits_passes(ns, failing) ==
    LET h0 == [calls |-> <<>>, exc |-> NoExc]
        h1 == IF ~ns.as_root
              THEN HookCall(HookCall(h0, "setgid", "autograder", failing),
                            "setuid", "autograder", failing)
              ELSE h0
        h2 == IF ns.block_process_spawn THEN HookCall(h1, "RLIMIT_NPROC", 0, failing) ELSE h1
        h3 == IF ns.max_stack_size # None
              THEN HookCall(h2, "RLIMIT_STACK", Val(ns.max_stack_size), failing)
              ELSE h2
        h4 == IF ns.max_virtual_memory # None /\ h3.exc = NoExc
              THEN IF "RLIMIT_VMEM" \in failing
                   THEN HookCall(h3, "RLIMIT_AS", Val(ns.max_virtual_memory), failing)
                   ELSE HookCall(h3, "RLIMIT_VMEM", Val(ns.max_virtual_memory), failing)
              ELSE h3
    IN  [h4 EXCEPT !.exc = NoExc]

set_subprocess_rlimits(ns, failing) ==
    LET h0 == [calls |-> <<>>, exc |-> NoExc]
        h1 == IF ~ns.as_root
              THEN HookCall(HookCall(h0, "setgid", "autograder", failing),
                            "setuid", "autograder", failing)
              ELSE h0
        h2 == IF ns.block_process_spawn THEN HookCall(h1, "RLIMIT_NPROC", 0, failing) ELSE h1
        h3 == IF ns.max_stack_size # None
              THEN HookCall(h2, "RLIMIT_STACK", Val(ns.max_stack_size), failing)
              ELSE h2
    IN  IF ns.max_virtual_memory # None /\ h3.exc = NoExc
        THEN IF "RLIMIT_VMEM" \in failing
             THEN HookCall(h3, "RLIMIT_AS", Val(ns.max_virtual_memory), failing)
             ELSE HookCall(h3, "RLIMIT_VMEM", Val(ns.max_virtual_memory), failing)
        ELSE h3

\* the identity and limits of a process that has made the hook's calls
AfterHook(cred, hook_calls) ==
    LET made(c) == \E i \in 1..Len(hook_calls) : hook_calls[i].call = c
    IN  [uid |-> IF made("setuid") THEN "autograder" ELSE cred.uid,
         gid |-> IF made("setgid") THEN "autograder" ELSE cred.gid,
         rlimits |-> cred.rlimits
                     \cup {[resource |-> IF hook_calls[i].call = "RLIMIT_VMEM"
                                         THEN "RLIMIT_AS" ELSE hook_calls[i].call,
                            limit |-> hook_calls[i].arg]
                           : i \in {j \in 1..Len(hook_calls) :
                                       hook_calls[j].call \notin {"setuid", "setgid"}}}]

\* no target: the state of main() before it starts one
NoTarget ==
    /\ args = EmptyNamespace
    /\ process = [state |-> "none", returncode |-> None]
    /\ procs = {}
    /\ target = [stdout |-> 0, stderr |-> 0, forked |-> FALSE]
    /\ main_stdout = <<>>
    /\ main_stderr = <<>>
    /\ main_timed_out = FALSE
    /\ main_return_code = None
    /\ killed = <<>>
    /\ sys_stdout = <<>>
    /\ main_exc = NoExc
    /\ sys_stderr = <<>>
    /\ preexec_calls = <<>>
    /\ target_cred = None
    /\ runner_cred = RootCred

---------------------------------------------------------------------------
(* reap.py: the reaper, run by `docker run --rm --pid host <image> token`, *)
(* and the host's process table it scans.                                  *)
(*                                                                         *)
(* A string is the sequence of its parts, so that `a in b` is decided as   *)
(* Python decides it: a is a contiguous part of b.  A uuid4().hex is one   *)
(* part, different for every call of uuid4().                              *)

\* a string that holds no uuid
Word(w) == <<w>>

\* sub in arg
In(sub, arg) ==
    \E i \in 0..(Len(arg) - Len(sub)) : SubSeq(arg, i + 1, i + Len(sub)) = sub

\* the sandboxes of the host, named by the uuid of their unique id
Sandboxes == {"a", "b"}

\* line 233: self._unique_id = f'sandbox-{uuid.uuid4().hex}'
unique_id(sandbox) == <<"sandbox-", sandbox>>

\* line 234: self._main_process_script = f'/{self._unique_id}-main.sh'
main_process_script(sandbox) == <<"/">> \o unique_id(sandbox) \o <<"-main.sh">>

\* line 531: cmd_id = f'{self._unique_id}_cmd{uuid.uuid4().hex}'
\* The mutant leaves out the uuid of the invocation.
cmd_id_of_sandbox(sandbox, uuid) == unique_id(sandbox) \o <<"_cmd">>

cmd_id(sandbox, uuid) == unique_id(sandbox) \o <<"_cmd", uuid>>

\* the command the sandboxes are running
sleep_cmd == <<Word("sleep"), Word("10")>>

\* lines 282-312: the container's main process, `/bin/bash <main script>`
main_cmdline(sandbox) == <<Word("/bin/bash"), main_process_script(sandbox)>>

\* line 532: the exec client on the host; the container's name is the unique id
docker_exec_cmdline(sandbox, uuid) ==
    <<Word("docker"), Word("exec"), Word("-i"), unique_id(sandbox),
      Word("/usr/local/bin/cmd_runner.py"), Word("--cmd_id"), cmd_id(sandbox, uuid)>>
    \o sleep_cmd

\* the runner that client has the engine start in the container
runner_cmdline(sandbox, uuid) ==
    <<Word("/usr/bin/python3"), Word("/usr/local/bin/cmd_runner.py"), Word("--cmd_id"),
      cmd_id(sandbox, uuid)>>
    \o sleep_cmd

\* lines 425-427: the client that runs the reaper's container
docker_run_cmdline(token) ==
    <<Word("docker"), Word("run"), Word("--rm"), Word("--pid"), Word("host"),
      Word("jameslp/autograder-sandbox-reaper:1"), token>>

\* reap.py, lines 1 and 20-24: the reaper itself; search_for is its argument
reaper_cmdline(token) == <<Word("python3.10"), Word("reap.py"), token>>

(* The processes of the host while sandbox a is being reaped: the          *)
(* controller; in sandbox a the main process, an orphan the main process   *)
(* has inherited, the command u1 that timed out (exec client, runner,      *)
(* target, the target's child) and what is left of an earlier command u0;  *)
(* sandbox b with a command of its own and its own reap in progress; and   *)
(* the client and the process of the reaper of sandbox a.                  *)
Roles ==
    {"controller", "main_a", "orphan_a", "exec_a0", "runner_a0", "target_a0",
     "exec_a1", "runner_a1", "target_a1", "child_a1",
     "main_b", "runner_b1", "target_b1", "docker_run_b", "reaper_b",
     "docker_run", "reaper"}

\* the process that started a process; "init" for the engine's shim
ParentRole(role) ==
    CASE role \in {"exec_a0", "exec_a1", "docker_run", "docker_run_b"} -> "controller"
      [] role = "orphan_a" -> "main_a"
      [] role = "target_a0" -> "runner_a0"
      [] role = "target_a1" -> "runner_a1"
      [] role = "child_a1" -> "target_a1"
      [] role = "target_b1" -> "runner_b1"
      [] OTHER -> "init"

\* the pid namespace a process lives in
SandboxOf(role) ==
    CASE role \in {"main_a", "orphan_a", "runner_a0", "target_a0", "runner_a1", "target_a1",
                   "child_a1"} -> "a"
      [] role \in {"main_b", "runner_b1", "target_b1"} -> "b"
      [] OTHER -> "host"

\* the command invocation a process belongs to, "none" for the others
InvocationOf(role) ==
    CASE role \in {"exec_a0", "runner_a0", "target_a0"} -> "u0"
      [] role \in {"exec_a1", "runner_a1", "target_a1", "child_a1"} -> "u1"
      [] role \in {"runner_b1", "target_b1"} -> "u2"
      [] OTHER -> "none"

\* the tokens sandbox a's controller reaps with: the id of the command that timed
\* out (line 569) and the main process script (line 400)
SearchTokens == {cmd_id("a", "u1"), main_process_script("a")}

\* what sandbox b's controller is reaping with at the same time
search_for_b == main_process_script("b")

Cmdline(role, token) ==
    CASE role = "controller" -> <<Word("python3"), Word("tests.py")>>
      [] role = "main_a" -> main_cmdline("a")
      [] role = "main_b" -> main_cmdline("b")
      [] role = "exec_a0" -> docker_exec_cmdline("a", "u0")
      [] role = "exec_a1" -> docker_exec_cmdline("a", "u1")
      [] role = "runner_a0" -> runner_cmdline("a", "u0")
      [] role = "runner_a1" -> runner_cmdline("a", "u1")
      [] role = "runner_b1" -> runner_cmdline("b", "u2")
      [] role = "docker_run" -> docker_run_cmdline(token)
      [] role = "reaper" -> reaper_cmdline(token)
      [] role = "docker_run_b" -> docker_run_cmdline(search_for_b)
      [] role = "reaper_b" -> reaper_cmdline(search_for_b)
      [] OTHER -> sleep_cmd

\* the processes that do not exit on SIGTERM
IgnoresSigterm(role) == role \in {"child_a1", "orphan_a"}

(* psutil.process_iter() yields the processes by ascending pid.  The       *)
(* kernel hands out pids in order and starts again from the low ones when  *)
(* it has reached pid_max, so a process started later can have the lower   *)
(* pid.  The sandboxes' processes are numbered in the order they started;  *)
(* the reaper's client and the reaper, started last, come after them or,   *)
(* the pids having wrapped, before them.                                   *)
StartOrder ==
    <<"controller", "main_a", "exec_a0", "runner_a0", "target_a0", "orphan_a",
      "main_b", "runner_b1", "target_b1", "docker_run_b", "reaper_b",
      "exec_a1", "runner_a1", "target_a1", "child_a1">>

PidOrders ==
    {StartOrder \o <<"docker_run", "reaper">>,
     <<"docker_run">> \o StartOrder \o <<"reaper">>,
     <<"reaper">> \o StartOrder \o <<"docker_run">>,
     <<"docker_run", "reaper">> \o StartOrder}

PidOf(order, role) == CHOOSE pid \in 1..Len(order) : order[pid] = role

Process(order, role, token) ==
    [pid |-> PidOf(order, role),
     ppid |-> IF ParentRole(role) = "init" THEN 0 ELSE PidOf(order, ParentRole(role)),
     role |-> role,
     cmdline |-> Cmdline(role, token)]

\* the processes that may have exited already when the reaper starts
MayBeGone == {{}, {"child_a1"}, {"target_a1", "child_a1"},
              {"runner_a1", "target_a1", "child_a1"}}

\* os.getpid() in the reaper
getpid(procs_) == (CHOOSE p \in procs_ : p.role = "reaper").pid

\* lines 44-58: _find_process(search_for) over the processes by ascending pid;
\* None is <<>>
RECURSIVE FindFrom(_, _, _)
FindFrom(procs_, search_for_, pid) ==
    IF pid > Cardinality(Roles) THEN None
    ELSE IF \E p \in procs_ : p.pid = pid
         THEN LET p == CHOOSE q \in procs_ : q.pid = pid
                  cmd_args == p.cmdline
              IN  IF SubSeq(cmd_args, 1, 2) = <<Word("docker"), Word("exec")>>
                  THEN FindFrom(procs_, search_for_, pid + 1)
                  ELSE IF \E i \in 1..Len(cmd_args) : In(search_for_, cmd_args[i])
                       THEN Some(p.pid)
                       ELSE FindFrom(procs_, search_for_, pid + 1)
         ELSE FindFrom(procs_, search_for_, pid + 1)

_find_process(procs_, search_for_) == FindFrom(procs_, search_for_, 1)

\* line 75: parent.children(recursive=True), the pids of the descendants
RECURSIVE Descendants(_, _, _)
Descendants(procs_, pids, n) ==
    IF n = 0 \/ pids = {} THEN {}
    ELSE LET kids == {p.pid : p \in {q \in procs_ : q.ppid \in pids}}
         IN  kids \cup Descendants(procs_, kids, n - 1)

\* The mutant counts the process among its own descendants.
parent_children_with_parent(procs_, parent) ==
    {parent} \cup Descendants(procs_, {parent}, Cardinality(Roles))

parent_children(procs_, parent) == Descendants(procs_, {parent}, Cardinality(Roles))

\* wait_procs(children, timeout=3): the seconds the reaper waits at most
grace_period == 3

\* the role of the process with a pid
RoleOf(order, pid) == order[pid]

\* the reaper has not been started
NoReaper ==
    /\ pid_order = <<>>
    /\ table = {}
    /\ search_token = <<>>
    /\ reap_pc = "none"
    /\ parent_proc = None
    /\ children = {}
    /\ to_signal = {}
    /\ alive = {}
    /\ waited = 0
    /\ sent = <<>>
    /\ pending = {}
    /\ reap_exc = NoExc

\* the state of the controller and of the runner while the reaper runs
reaped_vars == <<controller_vars, runner, main_vars>>

\* the process pid exits: its children are inherited by the main process of its
\* sandbox, or by init on the host
Exited(procs_, order, pid) ==
    LET role == RoleOf(order, pid)
        heir == IF SandboxOf(role) = "a" THEN PidOf(order, "main_a")
                ELSE IF SandboxOf(role) = "b" THEN PidOf(order, "main_b")
                ELSE 0
    IN  {IF p.ppid = pid THEN [p EXCEPT !.ppid = heir] ELSE p
         : p \in {q \in procs_ : q.pid # pid}}

\* line 16-17 and 37: main() parses search_for and looks for the process
ReaperFinds ==
    /\ reap_pc = "find"
    /\ parent_proc' = _find_process(table, search_token)
    /\ reap_pc' = IF _find_process(table, search_token) = None THEN "exited" ELSE "children"
    /\ UNCHANGED <<pid_order, table, search_token, children, to_signal, alive, waited, sent,
                   pending, reap_exc>>
    /\ UNCHANGED reaped_vars

\* lines 72-77: the assertion and the snapshot of the descendants;
\* AssertionError leaves main(), NoSuchProcess ends _kill_proc_descendents
ReaperChildren ==
    /\ reap_pc = "children"
    /\ IF Val(parent_proc) = getpid(table)
       THEN /\ reap_exc' = "AssertionError"
            /\ reap_pc' = "exited"
            /\ UNCHANGED <<children, to_signal>>
       ELSE IF \A p \in table : p.pid # Val(parent_proc)
       THEN /\ reap_pc' = "exited"
            /\ UNCHANGED <<children, to_signal, reap_exc>>
       ELSE /\ children' = parent_children(table, Val(parent_proc))
            /\ to_signal' = parent_children(table, Val(parent_proc))
            /\ reap_pc' = "terminate"
            /\ UNCHANGED reap_exc
    /\ UNCHANGED <<pid_order, table, search_token, parent_proc, alive, waited, sent, pending>>
    /\ UNCHANGED reaped_vars

\* the next process of a loop over a list of processes
NextOf(pids) == CHOOSE pid \in pids : \A other \in pids : pid <= other

\* lines 81-86: p.terminate() for the next child; NoSuchProcess is passed over
\* The mutant passes over every child.
ReaperTerminates_nothing ==
    /\ reap_pc = "terminate"
    /\ to_signal' = {}
    /\ reap_pc' = "wait"
    /\ UNCHANGED <<pid_order, table, search_token, parent_proc, children, alive, waited, sent,
                   pending, reap_exc>>
    /\ UNCHANGED reaped_vars

ReaperTerminates ==
    /\ reap_pc = "terminate"
    /\ IF to_signal = {}
       THEN /\ reap_pc' = "wait"
            /\ UNCHANGED <<to_signal, sent, pending>>
       ELSE LET pid == NextOf(to_signal)
            IN  /\ to_signal' = to_signal \ {pid}
                /\ IF \E p \in table : p.pid = pid
                   THEN /\ sent' = Append(sent, [pid |-> pid, signal |-> "SIGTERM"])
                        /\ pending' = pending \cup {pid}
                   ELSE UNCHANGED <<sent, pending>>
                /\ UNCHANGED reap_pc
    /\ UNCHANGED <<pid_order, table, search_token, parent_proc, children, alive, waited,
                   reap_exc>>
    /\ UNCHANGED reaped_vars

\* a process that has been sent SIGTERM and does not ignore it exits
SigtermEnds ==
    /\ \E pid \in pending :
          /\ \E p \in table : p.pid = pid
          /\ ~IgnoresSigterm(RoleOf(pid_order, pid))
          /\ table' = Exited(table, pid_order, pid)
          /\ pending' = pending \ {pid}
    /\ UNCHANGED <<pid_order, search_token, reap_pc, parent_proc, children, to_signal, alive,
                   waited, sent, reap_exc>>
    /\ UNCHANGED reaped_vars

\* a command's process exits by itself while the reaper runs
SelfExiting == {"target_a1", "target_b1", "runner_b1"}

ProcessExits ==
    /\ reap_pc \in {"find", "children", "terminate", "wait", "kill"}
    /\ \E p \in table :
          /\ p.role \in SelfExiting
          /\ table' = Exited(table, pid_order, p.pid)
          /\ pending' = pending \ {p.pid}
    /\ UNCHANGED <<pid_order, search_token, reap_pc, parent_proc, children, to_signal, alive,
                   waited, sent, reap_exc>>
    /\ UNCHANGED reaped_vars

\* line 89: one second of wait_procs passes while a child is alive
ReaperWaits ==
    /\ reap_pc = "wait"
    /\ waited < grace_period
    /\ \E p \in table : p.pid \in children
    /\ waited' = waited + 1
    /\ UNCHANGED <<pid_order, table, search_token, reap_pc, parent_proc, children, to_signal,
                   alive, sent, pending, reap_exc>>
    /\ UNCHANGED reaped_vars

\* line 89: wait_procs returns (gone, alive) when every child is gone or the
\* timeout has passed
ReaperWaitReturns ==
    /\ reap_pc = "wait"
    /\ \/ waited = grace_period
       \/ \A p \in table : p.pid \notin children
    /\ alive' = {p.pid : p \in {q \in table : q.pid \in children}}
    /\ to_signal' = {p.pid : p \in {q \in table : q.pid \in children}}
    /\ reap_pc' = "kill"
    /\ UNCHANGED <<pid_order, table, search_token, parent_proc, children, waited, sent, pending,
                   reap_exc>>
    /\ UNCHANGED reaped_vars

\* lines 91-96: p.kill() for the next process of alive, then main() returns
ReaperKills ==
    /\ reap_pc = "kill"
    /\ IF to_signal = {}
       THEN /\ reap_pc' = "exited"
            /\ UNCHANGED <<table, to_signal, sent, pending>>
       ELSE LET pid == NextOf(to_signal)
            IN  /\ to_signal' = to_signal \ {pid}
                /\ IF \E p \in table : p.pid = pid
                   THEN /\ sent' = Append(sent, [pid |-> pid, signal |-> "SIGKILL"])
                        /\ table' = Exited(table, pid_order, pid)
                        /\ pending' = pending \ {pid}
                   ELSE UNCHANGED <<table, sent, pending>>
                /\ UNCHANGED reap_pc
    /\ UNCHANGED <<pid_order, search_token, parent_proc, children, alive, waited, reap_exc>>
    /\ UNCHANGED reaped_vars

\* reap.py has just been started for sandbox a, by a controller otherwise idle
InitReaper ==
    /\ cfg \in Configs
    /\ is_running = TRUE
    /\ allow_network_access = FALSE
    /\ container = "running"
    /\ files = {}
    /\ scope = "in"
    /\ op = "none"
    /\ exc = NoExc
    /\ calls = <<>>
    /\ hooks = 0
    /\ signals = <<>>
    /\ pc = "idle"
    /\ cmd = NoCmd
    /\ docker_exec = "none"
    /\ exec_rc = 0
    /\ runner = NoProcess
    /\ runner_stdout = <<>>
    /\ runner_stderr = <<>>
    /\ timed_out = FALSE
    /\ return_code = None
    /\ result = None
    /\ error = None
    /\ NoTarget
    /\ pid_order \in PidOrders
    /\ search_token \in SearchTokens
    /\ \E gone \in MayBeGone :
          table = {Process(pid_order, role, search_token) : role \in Roles \ gone}
    /\ reap_pc = "find"
    /\ parent_proc = None
    /\ children = {}
    /\ to_signal = {}
    /\ alive = {}
    /\ waited = 0
    /\ sent = <<>>
    /\ pending = {}
    /\ reap_exc = NoExc

NextReaper ==
    \/ ReaperFinds \/ ReaperChildren \/ ReaperTerminates \/ SigtermEnds \/ ProcessExits
    \/ ReaperWaits \/ ReaperWaitReturns \/ ReaperKills

SpecReaper == InitReaper /\ [][NextReaper]_vars

\* the reaper's own steps are taken, and so is the exit of a process that was sent
\* SIGTERM and does not ignore it; a command's process need not exit by itself
SpecReaperFair ==
    /\ SpecReaper
    /\ WF_vars(ReaperFinds \/ ReaperChildren \/ ReaperTerminates \/ ReaperWaits
               \/ ReaperWaitReturns \/ ReaperKills)

---------------------------------------------------------------------------
(* The caller's view: the sandbox object at the start of an operation.     *)

Self ==
    [cfg |-> cfg, is_running |-> is_running, allow_network_access |-> allow_network_access,
     container |-> container, files |-> files, runner |-> runner, calls |-> <<>>, hooks |-> 0,
     exc |-> NoExc]

\* No run_command call is in progress, and none has left a result
NoCommand ==
    /\ pc' = "idle"
    /\ cmd' = NoCmd
    /\ docker_exec' = "none"
    /\ exec_rc' = 0
    /\ runner_stdout' = <<>>
    /\ runner_stderr' = <<>>
    /\ timed_out' = FALSE
    /\ return_code' = None
    /\ result' = None
    /\ error' = None
    /\ signals' = <<>>

\* A lifecycle operation `name` ends in state s
Returns(s, name) ==
    /\ is_running' = s.is_running
    /\ container' = s.container
    /\ files' = s.files
    /\ runner' = s.runner
    /\ calls' = s.calls
    /\ hooks' = s.hooks
    /\ exc' = s.exc
    /\ op' = name
    /\ pc' = "done"
    /\ UNCHANGED <<cfg, allow_network_access, signals, cmd, docker_exec, exec_rc,
                   runner_stdout, runner_stderr, timed_out, return_code, result, error>>
    /\ UNCHANGED main_vars
    /\ UNCHANGED reaper_vars

Init ==
    /\ cfg \in Configs
    /\ is_running = FALSE
    /\ allow_network_access = FALSE
    /\ container = "absent"
    /\ files = {}
    /\ scope = "out"
    /\ op = "none"
    /\ exc = NoExc
    /\ calls = <<>>
    /\ hooks = 0
    /\ signals = <<>>
    /\ pc = "idle"
    /\ cmd = NoCmd
    /\ docker_exec = "none"
    /\ exec_rc = 0
    /\ runner = NoProcess
    /\ runner_stdout = <<>>
    /\ runner_stderr = <<>>
    /\ timed_out = FALSE
    /\ return_code = None
    /\ result = None
    /\ error = None
    /\ NoTarget
    /\ NoReaper

---------------------------------------------------------------------------
(* Lifecycle operations.  The caller issues them one at a time and never   *)
(* while a run_command call is in progress, and it uses the sandbox as a   *)
(* context manager: reset, restart and run_command inside the with block.  *)

\* with sandbox: __enter__
Enter ==
    /\ pc = "idle" /\ scope = "out"
    /\ \E s \in _create_and_start(Self) :
          /\ Returns(s, "__enter__")
          /\ scope' = IF s.exc = NoExc THEN "in" ELSE "out"

\* A second AutograderSandbox object constructed with the same name is started
\* while the first is inside its with block and a container of that name exists
\* (tests.py:244-251).  The second object has the constructor's values and shares
\* nothing with the first but the engine.
EnterSameName ==
    /\ pc = "idle" /\ scope = "in" /\ container # "absent"
    /\ \E s \in _create_and_start([Self EXCEPT !.is_running = FALSE,
                                               !.allow_network_access = FALSE]) :
          /\ container' = s.container
          /\ files' = s.files
          /\ runner' = s.runner
          /\ calls' = s.calls
          /\ hooks' = s.hooks
          /\ exc' = s.exc
    /\ op' = "__enter__ of the second sandbox"
    /\ pc' = "done"
    /\ UNCHANGED <<cfg, is_running, allow_network_access, scope, signals, cmd, docker_exec,
                   exec_rc, runner_stdout, runner_stderr, timed_out, return_code, result,
                   error>>
    /\ UNCHANGED main_vars
    /\ UNCHANGED reaper_vars

\* the end of the with block: __exit__
Exit ==
    /\ pc = "idle" /\ scope = "in"
    /\ \E s \in _destroy(Self) : Returns(s, "__exit__")
    /\ scope' = "out"

Reset ==
    /\ pc = "idle" /\ scope = "in"
    /\ \E s \in reset(Self) : Returns(s, "reset")
    /\ UNCHANGED scope

Restart ==
    /\ pc = "idle" /\ scope = "in"
    /\ \E s \in restart(Self) : Returns(s, "restart")
    /\ UNCHANGED scope

\* sandbox.allow_network_access = value
\* The mutant returns without storing the value.
SetAllowNetworkAccess_ignored ==
    /\ pc = "idle"
    /\ exc' = IF is_running THEN "ValueError" ELSE NoExc
    /\ op' = "allow_network_access"
    /\ pc' = "done"
    /\ UNCHANGED <<cfg, is_running, allow_network_access, container, files, scope, runner,
                   calls, hooks, signals, cmd, docker_exec, exec_rc, runner_stdout,
                   runner_stderr, timed_out, return_code, result, error>>
    /\ UNCHANGED main_vars
    /\ UNCHANGED reaper_vars

SetAllowNetworkAccess ==
    /\ pc = "idle"
    /\ \E value \in BOOLEAN :
          /\ exc' = IF is_running THEN "ValueError" ELSE NoExc
          /\ allow_network_access' = IF is_running THEN allow_network_access ELSE value
    /\ op' = "allow_network_access"
    /\ pc' = "done"
    /\ UNCHANGED <<cfg, is_running, container, files, scope, runner, calls, hooks, signals, cmd,
                   docker_exec, exec_rc, runner_stdout, runner_stderr, timed_out,
                   return_code, result, error>>
    /\ UNCHANGED main_vars
    /\ UNCHANGED reaper_vars

---------------------------------------------------------------------------
(* run_command, step by step, with the processes it starts *)

\* lines 531-560: build the exec invocation and start it with Popen
RunCommand ==
    /\ pc = "idle" /\ scope = "in" /\ runner = NoProcess
    /\ \E timeout \in Timeouts, check \in BOOLEAN, ts \in Caps, te \in Caps, prog \in Programs :
          cmd' = [args |-> prog.args, timeout |-> timeout, check |-> check,
                  truncate_stdout |-> ts, truncate_stderr |-> te,
                  argv |-> RunnerArgv(timeout, prog.args), program |-> prog]
    /\ pc' = "wait"
    /\ docker_exec' = "started"
    /\ op' = "run_command"
    /\ exc' = NoExc
    /\ calls' = <<[what |-> "exec", arg |-> "cmd_runner.py", timeout |-> None,
                   raised |-> NoExc]>>
    /\ hooks' = 0
    /\ exec_rc' = 0
    /\ runner_stdout' = <<>>
    /\ runner_stderr' = <<>>
    /\ timed_out' = FALSE
    /\ return_code' = None
    /\ result' = None
    /\ error' = None
    /\ signals' = <<>>
    /\ UNCHANGED <<cfg, is_running, allow_network_access, container, files, scope, runner>>
    /\ UNCHANGED main_vars
    /\ UNCHANGED reaper_vars

\* _chown_files(filenames): the command it has run_command run as root
chown_cmd == <<"chown", "autograder:autograder", "file">>

\* what chown does when it is run: no output, exit status 0
chown_program ==
    [args |-> chown_cmd, stdout |-> <<>>, stderr |-> <<>>, exit_code |-> 0,
     outlives_timeout |-> FALSE, forks |-> FALSE, detaches |-> FALSE]

\* add_files(filename) with the default owner and read_only: `docker cp - name:dir`
\* by subprocess.check_call, without a timeout and without reraise; then
\* _chown_files, which is run_command(chown_cmd, as_root=True) from its first line.
AddFiles ==
    /\ pc = "idle" /\ scope = "in" /\ runner = NoProcess
    /\ \E o \in Possible(container, "cp", None) :
          LET cp == [what |-> "cp", arg |-> "working_dir", timeout |-> None,
                     raised |-> Raised(o)]
          IN  IF Done(o)
              THEN /\ files' = files \cup {"file"}
                   /\ cmd' = [args |-> chown_cmd, timeout |-> None, check |-> FALSE,
                              truncate_stdout |-> None, truncate_stderr |-> None,
                              argv |-> RunnerArgv(None, <<"--as_root">> \o chown_cmd),
                              program |-> chown_program]
                   /\ calls' = <<cp, [what |-> "exec", arg |-> "cmd_runner.py",
                                      timeout |-> None, raised |-> NoExc]>>
                   /\ exc' = NoExc
                   /\ pc' = "wait"
                   /\ docker_exec' = "started"
              ELSE /\ files' = files
                   /\ cmd' = NoCmd
                   /\ calls' = <<cp>>
                   /\ exc' = Raised(o)
                   /\ pc' = "done"
                   /\ docker_exec' = "none"
    /\ op' = "add_files"
    /\ hooks' = 0
    /\ exec_rc' = 0
    /\ runner_stdout' = <<>>
    /\ runner_stderr' = <<>>
    /\ timed_out' = FALSE
    /\ return_code' = None
    /\ result' = None
    /\ error' = None
    /\ signals' = <<>>
    /\ UNCHANGED <<cfg, is_running, allow_network_access, container, scope, runner>>
    /\ UNCHANGED main_vars
    /\ UNCHANGED reaper_vars

\* The engine starts the runner in the container, or refuses: the client then
\* exits with status 1 after writing the engine's error to its stderr.
DockerExec ==
    /\ docker_exec = "started"
    /\ IF EngineAccepts(container, "exec")
       THEN /\ runner' = [at |-> "parse_args", argv |-> cmd.argv]
            /\ docker_exec' = "attached"
            /\ UNCHANGED <<exec_rc, runner_stderr>>
       ELSE /\ docker_exec' = "exited"
            /\ exec_rc' = 1
            /\ runner_stderr' = runner_stderr \o docker_error_text
            /\ UNCHANGED runner
    /\ UNCHANGED <<cfg, is_running, allow_network_access, container, files, scope, op, exc, calls,
                   hooks, signals, pc, cmd, runner_stdout, timed_out, return_code, result,
                   error>>
    /\ UNCHANGED main_vars
    /\ UNCHANGED reaper_vars

\* cmd_runner.py main(), line 22: parse_args() finds an unrecognized argument and
\* prints the usage to stderr.  The bytes reach the controller's file while the
\* exec client lives.
RunnerUsage ==
    /\ runner.at = "parse_args"
    /\ parse_args(runner.argv).unrecognized # <<>>
    /\ runner' = [runner EXCEPT !.at = "error"]
    /\ runner_stderr' = IF docker_exec = "attached" THEN runner_stderr \o usage_text
                        ELSE runner_stderr
    /\ UNCHANGED <<cfg, is_running, allow_network_access, container, files, scope, op, exc, calls,
                   hooks, signals, pc, cmd, docker_exec, exec_rc, runner_stdout, timed_out,
                   return_code, result, error>>
    /\ UNCHANGED main_vars
    /\ UNCHANGED reaper_vars

\* parse_args() then prints the error and exits with status 2, which the exec client
\* reports as its own exit status.
RunnerExit ==
    /\ runner.at = "error"
    /\ runner' = NoProcess
    /\ IF docker_exec = "attached"
       THEN /\ runner_stderr' = runner_stderr \o error_text
            /\ docker_exec' = "exited"
            /\ exec_rc' = 2
       ELSE UNCHANGED <<runner_stderr, docker_exec, exec_rc>>
    /\ UNCHANGED <<cfg, is_running, allow_network_access, container, files, scope, op, exc, calls,
                   hooks, signals, pc, cmd, runner_stdout, timed_out, return_code, result,
                   error>>
    /\ UNCHANGED main_vars
    /\ UNCHANGED reaper_vars

\* line 562: the bound run_command gives its own wait for the exec client,
\* docker_exec.wait(timeout=timeout): the timeout it was called with
docker_exec_wait_timeout(timeout) == timeout

\* lines 578-618: truncate, build the CompletedCommand, raise it or have it to return
Collect(rc) ==
    LET res == CompletedCommand(rc, timed_out, runner_stdout, runner_stderr,
                                cmd.truncate_stdout, cmd.truncate_stderr)
    IN  /\ return_code' = rc
        /\ IF ShouldRaise(cmd.check, res)
           THEN /\ exc' = "SandboxCommandError"
                /\ error' = Some([cmd |-> cmd.args, result |-> res])
                /\ result' = None
           ELSE /\ exc' = NoExc
                /\ error' = None
                /\ result' = Some(res)
        /\ pc' = "done"

\* line 562: docker_exec.wait(timeout=timeout) returns the client's exit status,
\* and run_command goes on to line 578
WaitReturns ==
    /\ pc = "wait" /\ docker_exec = "exited"
    /\ Collect(Some(exec_rc))
    /\ UNCHANGED <<cfg, is_running, allow_network_access, container, files, scope, op, calls, hooks,
                   signals, cmd, docker_exec, exec_rc, runner, runner_stdout, runner_stderr,
                   timed_out>>
    /\ UNCHANGED main_vars
    /\ UNCHANGED reaper_vars

\* lines 563-568: the wait raises TimeoutExpired: the client has not exited
\* The mutant goes on to the signals without calling the reaper.
WaitTimesOut_without_reap ==
    /\ pc = "wait" /\ docker_exec # "exited" /\ docker_exec_wait_timeout(cmd.timeout) # None
    /\ timed_out' = TRUE
    /\ pc' = "killpg"
    /\ UNCHANGED <<cfg, is_running, allow_network_access, container, files, scope, op, exc, calls,
                   hooks, signals, cmd, docker_exec, exec_rc, runner, runner_stdout,
                   runner_stderr, return_code, result, error>>
    /\ UNCHANGED main_vars
    /\ UNCHANGED reaper_vars

WaitTimesOut ==
    /\ pc = "wait" /\ docker_exec # "exited" /\ docker_exec_wait_timeout(cmd.timeout) # None
    /\ timed_out' = TRUE
    /\ pc' = "reap"
    /\ UNCHANGED <<cfg, is_running, allow_network_access, container, files, scope, op, exc, calls,
                   hooks, signals, cmd, docker_exec, exec_rc, runner, runner_stdout,
                   runner_stderr, return_code, result, error>>
    /\ UNCHANGED main_vars
    /\ UNCHANGED reaper_vars

\* line 569: self._reap(cmd_id).  The reaper kills the descendants of the process
\* it finds, and the runner that failed in parse_args has none.
Reap ==
    /\ pc = "reap"
    /\ \E s \in _reap([Self EXCEPT !.calls = calls], "cmd_id") :
          /\ calls' = s.calls
          /\ hooks' = s.hooks
          /\ exc' = s.exc
          /\ pc' = IF s.exc = NoExc THEN "killpg" ELSE "done"
    /\ UNCHANGED <<cfg, is_running, allow_network_access, container, files, scope, op, signals, cmd,
                   docker_exec, exec_rc, runner, runner_stdout, runner_stderr, timed_out,
                   return_code, result, error>>
    /\ UNCHANGED main_vars
    /\ UNCHANGED reaper_vars

\* lines 570-576: SIGTERM to the exec client's process group, one second for it to
\* exit, SIGKILL if it has not; return_code is still None at line 578
KillPg ==
    /\ pc = "killpg"
    /\ \E exited_in_time \in BOOLEAN :
          /\ docker_exec = "exited" => exited_in_time
          /\ signals' = IF exited_in_time THEN <<"SIGTERM">> ELSE <<"SIGTERM", "SIGKILL">>
          /\ exec_rc' = IF docker_exec = "exited" THEN exec_rc
                        ELSE IF exited_in_time THEN -15 ELSE -9
    /\ docker_exec' = "exited"
    /\ Collect(None)
    /\ UNCHANGED <<cfg, is_running, allow_network_access, container, files, scope, op, calls, hooks,
                   cmd, runner, runner_stdout, runner_stderr, timed_out>>
    /\ UNCHANGED main_vars
    /\ UNCHANGED reaper_vars

\* The operation returns or raises: its frame is gone, the caller goes on
Return ==
    /\ pc = "done"
    /\ op' = "none"
    /\ exc' = NoExc
    /\ calls' = <<>>
    /\ hooks' = 0
    /\ NoCommand
    /\ UNCHANGED <<cfg, is_running, allow_network_access, container, files, scope, runner>>
    /\ UNCHANGED main_vars
    /\ UNCHANGED reaper_vars

---------------------------------------------------------------------------
(* cmd_runner.py run on its own command line: main() step by step, and the *)
(* target's own steps while main() waits in communicate()                  *)

\* the runner's command line for a timeout, two truncation limits and a command
CommandLine(timeout, truncate_stdout, truncate_stderr, cmd_args) ==
    (IF timeout # None THEN <<"--timeout", ToString(Val(timeout))>> ELSE <<>>)
    \o (IF truncate_stdout # None
        THEN <<"--truncate_stdout", ToString(Val(truncate_stdout))>> ELSE <<>>)
    \o (IF truncate_stderr # None
        THEN <<"--truncate_stderr", ToString(Val(truncate_stderr))>> ELSE <<>>)
    \o cmd_args

\* lines 534-546 of run_command: the options of the hook
HookOptions(as_root, block_process_spawn, max_stack_size, max_virtual_memory) ==
    (IF block_process_spawn THEN <<"--block_process_spawn">> ELSE <<>>)
    \o (IF max_stack_size # None
        THEN <<"--max_stack_size", ToString(Val(max_stack_size))>> ELSE <<>>)
    \o (IF max_virtual_memory # None
        THEN <<"--max_virtual_memory", ToString(Val(max_virtual_memory))>> ELSE <<>>)
    \o (IF as_root THEN <<"--as_root">> ELSE <<>>)

\* the command lines the runner is started with: well-formed ones, and the one
\* run_command builds
CommandLines ==
    {CommandLine(t, ts, te, a) :
        t \in Timeouts, ts \in Caps, te \in Caps,
        a \in {p.args : p \in Programs}
                 \cup {<<"not_an_exe">>, <<"./spam/echo", "hello">>, <<"./spam">>}}
    \cup {HookOptions(r, b, s, m) \o a :
            r \in BOOLEAN, b \in BOOLEAN, s \in {None, Some(LimitBytes)},
            m \in {None, Some(LimitBytes)}, a \in {<<"touch", "/">>, <<"not_an_exe">>}}
    \cup {RunnerArgv(None, <<"touch", "/">>)}

\* Popen finds the executable
Executable(cmd_args) == \E p \in Programs : p.args = cmd_args

\* what the executable does
ProgramOf(cmd_args) == CHOOSE p \in Programs : p.args = cmd_args

\* line 22: parse_args() returns the Namespace
RunnerParsed ==
    /\ runner.at = "parse_args"
    /\ parse_args(runner.argv).unrecognized = <<>>
    /\ args' = parse_args(runner.argv)
    /\ runner' = [runner EXCEPT !.at = "popen"]
    /\ UNCHANGED <<process, procs, target, main_stdout, main_stderr, main_timed_out,
                   main_return_code, killed, sys_stdout>>
    /\ UNCHANGED <<main_exc, sys_stderr, preexec_calls, target_cred, runner_cred>>
    /\ UNCHANGED controller_vars
    /\ UNCHANGED reaper_vars

\* The OSError Popen raises when execve fails for a command of the tests, in a
\* working directory where `touch spam` has made a plain file (tests.py:114-134):
\* ENOTDIR for a path through the file, EACCES for the file itself, ENOENT for a
\* name that does not exist
PopenError(cmd_args) ==
    CASE cmd_args = <<"./spam/echo", "hello">> -> "NotADirectoryError"
      [] cmd_args = <<"./spam">> -> "PermissionError"
      [] OTHER -> "FileNotFoundError"

\* the line that ends the traceback of an uncaught exception
Traceback(e) ==
    CASE e = "NotADirectoryError" -> <<"NotADirectoryError: [Errno 20] Not a directory">>
      [] e = "PermissionError" -> <<"PermissionError: [Errno 13] Permission denied">>
      [] OTHER -> <<e>>

\* the text `Permission denied` is in a stream
HasPermissionDenied(stream) ==
    \E i \in 1..Len(stream) :
        stream[i] = "PermissionError: [Errno 13] Permission denied"

\* lines 69-75 and 89-92: Popen forks, the child runs the hook and executes the
\* target as the leader of a new session; or Popen raises: SubprocessError when the
\* hook raised, else the OSError of execve; FileNotFoundError is caught at line 89,
\* any other exception leaves main()
RunnerPopen ==
    /\ runner.at = "popen"
    /\ \E failing \in HookFailures :
          LET hook == set_subprocess_rlimits(args, failing)
          IN  /\ preexec_calls' = hook.calls
              /\ IF hook.exc # NoExc
                 THEN /\ main_exc' = "SubprocessError"
                      /\ runner' = [runner EXCEPT !.at = "raised"]
                      /\ UNCHANGED <<process, procs, main_return_code, target_cred>>
                 ELSE IF Executable(args.cmd_args)
                 THEN /\ process' = [state |-> "running", returncode |-> None]
                      /\ procs' = procs \cup {[name |-> "target", pgid |-> "target"]}
                      /\ target_cred' = Some(AfterHook(runner_cred, hook.calls))
                      /\ runner' = [runner EXCEPT !.at = "communicate"]
                      /\ UNCHANGED <<main_return_code, main_exc>>
                 ELSE IF PopenError(args.cmd_args) = "FileNotFoundError"
                 THEN /\ main_return_code' = Some(127)
                      /\ runner' = [runner EXCEPT !.at = "emit"]
                      /\ UNCHANGED <<process, procs, main_exc, target_cred>>
                 ELSE /\ main_exc' = PopenError(args.cmd_args)
                      /\ runner' = [runner EXCEPT !.at = "raised"]
                      /\ UNCHANGED <<process, procs, main_return_code, target_cred>>
    /\ UNCHANGED <<args, target, main_stdout, main_stderr, main_timed_out, killed,
                   sys_stdout, sys_stderr, runner_cred>>
    /\ UNCHANGED controller_vars
    /\ UNCHANGED reaper_vars

\* An exception has left main(): the interpreter prints the traceback to the
\* runner's stderr and the runner exits with status 1, having printed no result
RunnerCrashes ==
    /\ runner.at = "raised"
    /\ sys_stderr' = sys_stderr \o Traceback(main_exc)
    /\ runner' = [runner EXCEPT !.at = "exited"]
    /\ UNCHANGED <<args, process, procs, target, main_stdout, main_stderr, main_timed_out,
                   main_return_code, killed, sys_stdout, main_exc, preexec_calls, target_cred,
                   runner_cred>>
    /\ UNCHANGED controller_vars
    /\ UNCHANGED reaper_vars

\* the exit status of the runner once it has exited
runner_exit_status == IF main_exc # NoExc THEN 1 ELSE 0

\* the target writes the next byte of its output: stdout first, then stderr
TargetWrites ==
    /\ process.state = "running"
    /\ LET p == ProgramOf(args.cmd_args)
       IN  \/ /\ target.stdout < Len(p.stdout)
              /\ main_stdout' = Append(main_stdout, p.stdout[target.stdout + 1])
              /\ target' = [target EXCEPT !.stdout = @ + 1]
              /\ UNCHANGED main_stderr
           \/ /\ target.stdout = Len(p.stdout)
              /\ target.stderr < Len(p.stderr)
              /\ main_stderr' = Append(main_stderr, p.stderr[target.stderr + 1])
              /\ target' = [target EXCEPT !.stderr = @ + 1]
              /\ UNCHANGED main_stdout
    /\ UNCHANGED <<args, process, procs, main_timed_out, main_return_code, killed,
                   sys_stdout, runner>>
    /\ UNCHANGED <<main_exc, sys_stderr, preexec_calls, target_cred, runner_cred>>
    /\ UNCHANGED controller_vars
    /\ UNCHANGED reaper_vars

\* the target starts a child, which stays in the target's process group
TargetForks ==
    /\ process.state = "running"
    /\ ProgramOf(args.cmd_args).forks
    /\ ~target.forked
    /\ target' = [target EXCEPT !.forked = TRUE]
    /\ procs' = procs \cup {[name |-> "child", pgid |-> "target"]}
    /\ UNCHANGED <<args, process, main_stdout, main_stderr, main_timed_out,
                   main_return_code, killed, sys_stdout, runner>>
    /\ UNCHANGED <<main_exc, sys_stderr, preexec_calls, target_cred, runner_cred>>
    /\ UNCHANGED controller_vars
    /\ UNCHANGED reaper_vars

\* the target exits by itself; a child it did not wait for stays
TargetExits ==
    /\ process.state = "running"
    /\ LET p == ProgramOf(args.cmd_args)
       IN  /\ ~p.outlives_timeout
           /\ target.stdout = Len(p.stdout) /\ target.stderr = Len(p.stderr)
           /\ p.forks => target.forked
           /\ process' = [state |-> "exited", returncode |-> Some(p.exit_code)]
    /\ procs' = procs \ {[name |-> "target", pgid |-> "target"]}
    /\ UNCHANGED <<args, target, main_stdout, main_stderr, main_timed_out,
                   main_return_code, killed, sys_stdout, runner>>
    /\ UNCHANGED <<main_exc, sys_stderr, preexec_calls, target_cred, runner_cred>>
    /\ UNCHANGED controller_vars
    /\ UNCHANGED reaper_vars

\* lines 77-78: communicate() returns, poll() is the target's exit status
CommunicateReturns ==
    /\ runner.at = "communicate"
    /\ process.state = "exited"
    /\ main_return_code' = process.returncode
    /\ runner' = [runner EXCEPT !.at = "emit"]
    /\ UNCHANGED <<args, process, procs, target, main_stdout, main_stderr, main_timed_out,
                   killed, sys_stdout>>
    /\ UNCHANGED <<main_exc, sys_stderr, preexec_calls, target_cred, runner_cred>>
    /\ UNCHANGED controller_vars
    /\ UNCHANGED reaper_vars

\* lines 79-83: communicate() raises TimeoutExpired: SIGKILL to the target's
\* process group, wait for the target, timed_out = True
\* The mutant kills the target alone, process.kill().
CommunicateTimesOut_kills_target_only ==
    /\ runner.at = "communicate"
    /\ args.timeout # None
    /\ process.state = "running"
    /\ ProgramOf(args.cmd_args).outlives_timeout
    /\ killed' = Append(killed, [pid |-> "target", signal |-> "SIGKILL"])
    /\ procs' = {q \in procs : q.name # "target"}
    /\ process' = [state |-> "exited", returncode |-> Some(-9)]
    /\ main_timed_out' = TRUE
    /\ runner' = [runner EXCEPT !.at = "emit"]
    /\ UNCHANGED <<args, target, main_stdout, main_stderr, main_return_code, sys_stdout>>
    /\ UNCHANGED <<main_exc, sys_stderr, preexec_calls, target_cred, runner_cred>>
    /\ UNCHANGED controller_vars
    /\ UNCHANGED reaper_vars

CommunicateTimesOut ==
    /\ runner.at = "communicate"
    /\ args.timeout # None
    /\ process.state = "running"
    /\ ProgramOf(args.cmd_args).outlives_timeout
    /\ killed' = Append(killed, [pgid |-> "target", signal |-> "SIGKILL"])
    /\ procs' = {q \in procs : q.pgid # "target"}
    /\ process' = [state |-> "exited", returncode |-> Some(-9)]
    /\ main_timed_out' = TRUE
    /\ runner' = [runner EXCEPT !.at = "emit"]
    /\ UNCHANGED <<args, target, main_stdout, main_stderr, main_return_code, sys_stdout>>
    /\ UNCHANGED <<main_exc, sys_stderr, preexec_calls, target_cred, runner_cred>>
    /\ UNCHANGED controller_vars
    /\ UNCHANGED reaper_vars

\* lines 94-124: the metadata and the two streams, each after its length
RunnerEmits ==
    /\ runner.at = "emit"
    /\ sys_stdout' = Emitted(args, main_return_code, main_timed_out, main_stdout,
                             main_stderr)
    /\ runner' = [runner EXCEPT !.at = "exited"]
    /\ UNCHANGED <<args, process, procs, target, main_stdout, main_stderr, main_timed_out,
                   main_return_code, killed>>
    /\ UNCHANGED <<main_exc, sys_stderr, preexec_calls, target_cred, runner_cred>>
    /\ UNCHANGED controller_vars
    /\ UNCHANGED reaper_vars

\* a started sandbox in which the runner has just been executed
InitRunner ==
    /\ cfg \in Configs
    /\ is_running = TRUE
    /\ allow_network_access = FALSE
    /\ container = "running"
    /\ files = {}
    /\ scope = "in"
    /\ op = "none"
    /\ exc = NoExc
    /\ calls = <<>>
    /\ hooks = 0
    /\ signals = <<>>
    /\ pc = "idle"
    /\ cmd = NoCmd
    /\ docker_exec = "none"
    /\ exec_rc = 0
    /\ runner \in {[at |-> "parse_args", argv |-> argv] : argv \in CommandLines}
    /\ runner_stdout = <<>>
    /\ runner_stderr = <<>>
    /\ timed_out = FALSE
    /\ return_code = None
    /\ result = None
    /\ error = None
    /\ NoTarget
    /\ NoReaper

NextRunner ==
    \/ RunnerUsage \/ RunnerExit \/ RunnerParsed \/ RunnerPopen
    \/ TargetWrites \/ TargetForks \/ TargetExits
    \/ CommunicateReturns \/ CommunicateTimesOut \/ RunnerEmits \/ RunnerCrashes

SpecRunner == InitRunner /\ [][NextRunner]_vars

Next ==
    \/ Enter \/ Restart \/ Reset \/ Exit \/ SetAllowNetworkAccess \/ EnterSameName
    \/ RunCommand \/ AddFiles \/ DockerExec \/ RunnerUsage \/ RunnerExit
    \/ WaitReturns \/ WaitTimesOut \/ Reap \/ KillPg \/ Return

Spec == Init /\ [][Next]_vars

---------------------------------------------------------------------------
(* What the caller of run_command observes when the call ends *)

\* run_command has returned a CompletedCommand or raised SandboxCommandError
Ended == op = "run_command" /\ pc = "done" /\ exc \in {NoExc, "SandboxCommandError"}

\* the CompletedCommand the caller holds: the returned one, or the raised error's
Delivered == IF error # None THEN Val(error).result ELSE Val(result)

\* the processes the invocation left in the container
LeftBehind ==
    (IF runner = NoProcess THEN {} ELSE {"cmd_runner.py"}) \cup {q.name : q \in procs}

Min(a, b) == IF a < b THEN a ELSE b

---------------------------------------------------------------------------
(* Properties of run_command and of the teardown path *)

\* C1: a run_command call with a timeout, made on a running sandbox, reports
\* timed_out = true and no return code when the target is still running at the
\* timeout; when the target exits before the timeout and the exec call ends
\* before the outer wait expires, it reports timed_out = false and the
\* target's own exit code.
C1_TimeoutDeterminism ==
    (Ended /\ container = "running" /\ cmd.timeout # None) =>
        /\ cmd.program.outlives_timeout =>
              Delivered.timed_out /\ Delivered.return_code = None
        /\ (~cmd.program.outlives_timeout /\ signals = <<>>) =>
              /\ ~Delivered.timed_out
              /\ Delivered.return_code = Some(cmd.program.exit_code)

C3_DetachedChildSurvives ==
    (Ended /\ container = "running" /\ ~Delivered.timed_out /\ cmd.program.detaches) =>
        /\ killed = <<>>
        /\ LeftBehind = {"child"}

\* the calls of one kind, and the failed ones
IsStop(c, grace) == c.what = "stop" /\ c.arg = grace
IsReap(c, marker) == c.what = "reaper" /\ c.arg = marker
Failed(c) == c.raised # NoExc

\* the last call made was the retry of the stop, and it and the first attempt failed
BothStopAttemptsFailed ==
    /\ Len(calls) >= 3
    /\ IsStop(calls[Len(calls)], "5") /\ Failed(calls[Len(calls)])
    /\ IsStop(calls[Len(calls) - 2], "10") /\ Failed(calls[Len(calls) - 2])

\* C4: an operation raises SandboxNotStopped, the one critical error, exactly
\* when the first stop attempt and the retry after reaping both failed, whichever
\* of __enter__, __exit__, reset and restart ran the stop; no failure of a
\* command's timeout, of the reaper or of the first attempt alone is critical.
C4_NotStoppedIffBothAttemptsFail ==
    /\ exc = "SandboxNotStopped" <=> BothStopAttemptsFailed
    /\ exc \in CriticalClasses => exc = "SandboxNotStopped"

\* SandboxNotStopped has come out of reset
C4_Witness == op = "reset" /\ pc = "done" /\ exc = "SandboxNotStopped"

\* C5: a failed first stop attempt (10 s grace) is followed by one reaper call
\* with the main-process marker and then by a stop attempt with 5 s grace, and
\* neither is issued otherwise; when that second attempt succeeds stop returns,
\* its caller goes on to its next engine call, and the sandbox is not marked
\* running.
C5_ReapThenRetry ==
    /\ \A i \in 1..Len(calls) :
          /\ (IsStop(calls[i], "10") /\ Failed(calls[i])) =>
                /\ Len(calls) >= i + 2
                /\ IsReap(calls[i + 1], "main_process_script")
                /\ IsStop(calls[i + 2], "5")
          /\ IsReap(calls[i], "main_process_script") =>
                i > 1 /\ IsStop(calls[i - 1], "10") /\ Failed(calls[i - 1])
          /\ IsStop(calls[i], "5") =>
                i > 1 /\ IsReap(calls[i - 1], "main_process_script")
          /\ (IsStop(calls[i], "5") /\ ~Failed(calls[i])) =>
                /\ Len(calls) > i
                /\ calls[i + 1].what \in {"rm", "start"}
    /\ (/\ op \in {"__exit__", "restart"}
        /\ pc = "done"
        /\ Len(calls) >= 3
        /\ IsStop(calls[3], "5") /\ ~Failed(calls[3])) =>
           exc # "SandboxNotStopped" /\ ~is_running

\* restart: the first stop failed, the retry succeeded, the container was started
C5_Witness ==
    /\ op = "restart" /\ pc = "done" /\ exc = NoExc
    /\ Len(calls) = 4
    /\ IsStop(calls[1], "10") /\ Failed(calls[1])
    /\ IsStop(calls[3], "5") /\ ~Failed(calls[3])
    /\ ~is_running

\* the reaper calls that failed
FailedReaps == {i \in 1..Len(calls) : calls[i].what = "reaper" /\ Failed(calls[i])}

ReturnCodes == {None} \cup {Some(n) : n \in 0..2}

\* C7: run_command raises SandboxCommandError exactly when check is true and the
\* result has a nonzero return code or timed out; the error carries the caller's
\* args and the CompletedCommand with the captured streams; with check false the
\* CompletedCommand is returned with the return code and the timed_out flag.
C7_RaisesIffCheckAndFailed ==
    /\ (op = "run_command" /\ pc = "done") =>
          /\ exc = "SandboxCommandError" <=>
                (cmd.check /\ (return_code # Some(0) \/ timed_out))
          /\ exc = "SandboxCommandError" =>
                /\ error # None /\ result = None
                /\ Val(error).cmd = cmd.args
                /\ Val(error).result.return_code = return_code
                /\ Val(error).result.timed_out = timed_out
                /\ cmd.truncate_stdout = None => Val(error).result.stdout = runner_stdout
                /\ cmd.truncate_stderr = None => Val(error).result.stderr = runner_stderr
          /\ ~cmd.check =>
                /\ exc = NoExc /\ result # None
                /\ Val(result).return_code = return_code
                /\ Val(result).timed_out = timed_out
    /\ \A rc \in ReturnCodes, check \in BOOLEAN :
          ShouldRaise(check, CompletedCommand(rc, rc = None, <<>>, <<>>, None, None))
              <=> (check /\ (rc # Some(0) \/ rc = None))

\* run_command with check has raised for a command that timed out
C7_Witness ==
    /\ op = "run_command" /\ pc = "done"
    /\ cmd.check /\ timed_out
    /\ exc = "SandboxCommandError"
    /\ Val(error).result.stderr # <<>>

\* what C8 requires of one stream: the bytes captured, the cap, the bytes and the
\* flag delivered
TruncatedTo(captured, cap, delivered, flag) ==
    IF cap = None
    THEN delivered = captured /\ ~flag
    ELSE /\ delivered = SubSeq(captured, 1, Min(Len(captured), Val(cap)))
         /\ flag = (Len(captured) > Val(cap))

\* C8: for each stream on its own, with L bytes captured and a cap C, the stream
\* run_command delivers is the first min(L, C) captured bytes and its flag is
\* (L > C); with no cap it is all L bytes and the flag is false; on the normal
\* path and on the timed-out path alike.
C8_Truncation ==
    Ended =>
        /\ TruncatedTo(runner_stdout, cmd.truncate_stdout, Delivered.stdout,
                       Delivered.stdout_truncated)
        /\ TruncatedTo(runner_stderr, cmd.truncate_stderr, Delivered.stderr,
                       Delivered.stderr_truncated)

\* a timed-out command with two bytes captured on stderr and a cap of one
C8_Witness ==
    /\ Ended /\ Delivered.timed_out
    /\ Len(runner_stderr) = 2 /\ cmd.truncate_stderr = Some(1)
    /\ Delivered.stderr = <<runner_stderr[1]>> /\ Delivered.stderr_truncated
    /\ cmd.truncate_stdout = Some(0) /\ ~Delivered.stdout_truncated

\* C9: for a command run without truncation caps on a running sandbox, the
\* stdout and the stderr of the CompletedCommand delivered are, byte for byte,
\* what the target wrote on that stream.
C9_ByteFaithful ==
    (/\ Ended /\ container = "running"
     /\ cmd.truncate_stdout = None /\ cmd.truncate_stderr = None) =>
        /\ Delivered.stdout = main_stdout
        /\ Delivered.stderr = main_stderr

---------------------------------------------------------------------------
(* The runner's output, read back as a reader of the protocol reads it:    *)
(* a decimal length on a line of its own, then that many bytes, three times *)

IsDigit(c) == \E d \in 1..10 : DigitChars[d] = c
DigitValue(c) == (CHOOSE d \in 1..10 : DigitChars[d] = c) - 1

\* int(text) for a string of digits
RECURSIVE DecimalValue(_)
DecimalValue(digits) ==
    IF digits = <<>> THEN 0
    ELSE DecimalValue(SubSeq(digits, 1, Len(digits) - 1)) * 10
         + DigitValue(digits[Len(digits)])

\* the part that starts at pos: its length line, its body, and where the next starts
ReadPart(bytes, pos) ==
    LET ends == {i \in pos..Len(bytes) : bytes[i] = "nl"}
        nl == CHOOSE i \in ends : \A j \in ends : i <= j
        digits == SubSeq(bytes, pos, nl - 1)
        n == DecimalValue(digits)
    IN  IF ends = {} \/ digits = <<>> \/ \E i \in 1..Len(digits) : ~IsDigit(digits[i])
        THEN [ok |-> FALSE, body |-> <<>>, next |-> pos]
        ELSE [ok |-> nl + n <= Len(bytes),
              body |-> SubSeq(bytes, nl + 1, Min(nl + n, Len(bytes))),
              next |-> nl + n + 1]

\* C10: what the runner writes is the metadata's length, the metadata JSON, the
\* stdout length, the stdout bytes, the stderr length, the stderr bytes, and
\* nothing else: each length is the number of bytes that follow it, which for a
\* truncated stream is the number of bytes emitted.
C10_FramingExact ==
    runner.at = "exited" =>
        LET metadata == ReadPart(sys_stdout, 1)
            stdout == ReadPart(sys_stdout, metadata.next)
            stderr == ReadPart(sys_stdout, stdout.next)
        IN  /\ metadata.ok
            /\ metadata.body = json_dumps(Results(args, main_return_code, main_timed_out,
                                                  main_stdout, main_stderr))
            /\ stdout.ok
            /\ stdout.body = SubSeq(main_stdout, 1, Len(stdout.body))
            /\ stderr.ok
            /\ stderr.body = SubSeq(main_stderr, 1, Len(stderr.body))
            /\ stderr.next = Len(sys_stdout) + 1

---------------------------------------------------------------------------
(* The controller's own wait for the exec client *)

Max(a, b) == IF a > b THEN a ELSE b

\* the values a minimum fallback timeout could have
MinFallbackTimeouts == 0..(2 * MaxTimeout + 1)

\* C11: while run_command waits for the exec client, the bound of that wait is
\* max(2 * timeout, minimum fallback timeout) when the caller gave a timeout, which
\* is never smaller than the timeout the runner enforces, and the wait is unbounded
\* when the caller gave none.
C11_OuterWaitBound ==
    (op = "run_command" /\ pc = "wait") =>
        IF cmd.timeout = None
        THEN docker_exec_wait_timeout(cmd.timeout) = None
        ELSE \E m \in MinFallbackTimeouts :
                docker_exec_wait_timeout(cmd.timeout) = Some(Max(2 * Val(cmd.timeout), m))

\* C12: when the controller's own wait expires, the command reports no return
\* code and timed_out true, and its stderr ends with a message explaining that the
\* fallback path was taken: with no cap on stderr, the delivered stderr is the
\* bytes captured from the exec call followed by that message.
C12_FallbackResult ==
    (Ended /\ timed_out) =>
        /\ Delivered.return_code = None
        /\ Delivered.timed_out
        /\ cmd.truncate_stderr = None =>
              /\ Len(Delivered.stderr) > Len(runner_stderr)
              /\ SubSeq(Delivered.stderr, 1, Len(runner_stderr)) = runner_stderr

---------------------------------------------------------------------------
(* The network setting of a running sandbox *)

\* C13: in every state in which the container is running and the caller is inside
\* the with block (after the start, after a reset, after a restart), an assignment
\* to allow_network_access raises ValueError and leaves the value unchanged.
C13_NetworkAccessFixedWhileRunning ==
    [][(pc = "idle" /\ scope = "in" /\ container = "running"
            /\ op' = "allow_network_access") =>
          /\ exc' = "ValueError"
          /\ allow_network_access' = allow_network_access]_vars

---------------------------------------------------------------------------
(* The start of a sandbox and its failures *)

FailedCalls == {i \in 1..Len(calls) : Failed(calls[i])}

\* C14: when a step of the start fails after the container was created (the
\* injection of the placeholder script, the engine's start, the injection of the
\* runner, the setting of its permissions), the partial state is torn down before
\* the error is raised: if no call of the teardown failed, no container created by
\* that start remains.
C14_FailedStartTornDown ==
    (/\ op = "__enter__" /\ pc = "done" /\ exc # NoExc
     /\ ~Failed(calls[1])
     /\ Cardinality(FailedCalls) = 1) =>
        container = "absent"

\* C15: the error of a failed start that reaches the caller is the SandboxError of
\* the step that failed, also when the teardown that follows fails itself.
C15_OriginalErrorReachesCaller ==
    (op = "__enter__" /\ pc = "done" /\ exc # NoExc) => exc = "SandboxError"

---------------------------------------------------------------------------
(* The end of a sandbox *)

TeardownCalls == {i \in 1..Len(calls) : calls[i].what \in {"stop", "rm"}}

\* C16: on every exit from the with block the sandbox is destroyed: __exit__ issues
\* the stop first and, once the container is stopped, the removal; when none of
\* these calls fails the container no longer exists, the sandbox is not marked as
\* running, and a container of the same name can be created again.
C16_DestroyOnExit ==
    (op = "__exit__" /\ pc = "done") =>
        /\ scope = "out"
        /\ Len(calls) >= 1 /\ IsStop(calls[1], "10")
        /\ exc # "SandboxNotStopped" =>
              /\ Len(calls) >= 2
              /\ calls[Len(calls)].what = "rm"
              /\ calls[Len(calls) - 1].what = "stop" /\ ~Failed(calls[Len(calls) - 1])
        /\ (\A i \in TeardownCalls : ~Failed(calls[i])) =>
              /\ exc = NoExc
              /\ container = "absent"
              /\ ~is_running
              /\ "ok" \in Possible(container, "create", cfg.container_create_timeout)

C16_Witness ==
    /\ op = "__exit__" /\ pc = "done" /\ exc = NoExc
    /\ Len(calls) = 2 /\ IsStop(calls[1], "10") /\ calls[2].what = "rm"
    /\ container = "absent" /\ ~is_running

\* the stop succeeded and the removal that followed it failed or timed out
RemovalFailedAfterStop ==
    /\ Len(calls) >= 2
    /\ calls[Len(calls)].what = "rm" /\ Failed(calls[Len(calls)])
    /\ calls[Len(calls) - 1].what = "stop" /\ ~Failed(calls[Len(calls) - 1])

\* C18: an operation that destroys the sandbox (__exit__, reset, the teardown of a
\* failed start) raises SandboxNotDestroyed exactly when the stop succeeded and the
\* removal failed or timed out, and SandboxNotDestroyed is a SandboxError that is
\* not a CriticalSandboxError.
C18_NotDestroyedIsNotCritical ==
    /\ "SandboxNotDestroyed" \in SandboxErrorClasses \ CriticalClasses
    /\ (pc = "done" /\ op \in {"__enter__", "__exit__", "reset"}) =>
          /\ RemovalFailedAfterStop <=> exc = "SandboxNotDestroyed"
          /\ (\E i \in 1..Len(calls) : calls[i].what = "rm" /\ Failed(calls[i])) =>
                exc \notin CriticalClasses

C18_Witness ==
    /\ op = "__exit__" /\ pc = "done" /\ exc = "SandboxNotDestroyed"
    /\ Len(calls) = 2 /\ IsStop(calls[1], "10") /\ ~Failed(calls[1])
    /\ calls[2].what = "rm" /\ calls[2].raised = "TimeoutExpired"

\* C19: a removal that fails after a successful stop is never raised to the caller
\* of __exit__ or reset: the operation goes on as if the removal had succeeded.
C19_RemovalFailureNotRaised ==
    (pc = "done" /\ op \in {"__exit__", "reset"} /\ RemovalFailedAfterStop) =>
        exc # "SandboxNotDestroyed"

---------------------------------------------------------------------------
(* Two sandboxes of one name *)

\* C17: the start of a sandbox whose name is that of a live sandbox fails with
\* SandboxError at the creation: `docker create` is its only engine call, no stop
\* and no removal is issued, and the live sandbox's container and the owner's
\* view of it are as they were.
C17_SameNameStartFails ==
    [][(pc = "idle" /\ op' = "__enter__ of the second sandbox") =>
          /\ exc' = "SandboxError"
          /\ Len(calls') = 1 /\ calls'[1].what = "create" /\ Failed(calls'[1])
          /\ UNCHANGED <<container, runner, is_running, allow_network_access, scope>>]_vars

C17_Witness ==
    /\ op = "__enter__ of the second sandbox" /\ pc = "done"
    /\ exc = "SandboxError"
    /\ scope = "in" /\ container = "running" /\ is_running

---------------------------------------------------------------------------
(* reset *)

\* the network argument `docker create` gets for a value of allow_network_access
NetArg(allow) == IF allow THEN "net" ELSE "--net none"

\* C20: reset is destroy followed by start.  Its first engine call is the stop; a
\* container is created only right after the removal succeeded, with the sandbox's
\* configuration, so that no container is created when destroy raises; a reset that
\* returns has issued stop, rm, create and start in this order, and leaves the
\* sandbox running on a container in which no file added before the reset exists.
\* The reset changes neither the configuration nor the caller's scope.
C20_ResetIsDestroyThenStart ==
    /\ [](op = "reset" /\ pc = "done" =>
            LET n == Len(calls)
            IN  /\ n >= 1 /\ IsStop(calls[1], "10")
                /\ \A i \in 1..n :
                      calls[i].what = "create" =>
                          /\ i > 1
                          /\ calls[i - 1].what = "rm" /\ ~Failed(calls[i - 1])
                          /\ calls[i].arg = NetArg(allow_network_access)
                          /\ calls[i].timeout = cfg.container_create_timeout
                /\ (\A i \in 1..n : calls[i].what = "rm" => Failed(calls[i])) =>
                      /\ exc \in {"SandboxNotStopped", "SandboxNotDestroyed"}
                      /\ \A i \in 1..n : calls[i].what # "create"
                /\ exc = NoExc =>
                      /\ n >= 7
                      /\ calls[n - 6].what = "stop"
                      /\ calls[n - 5].what = "rm"
                      /\ calls[n - 4].what = "create"
                      /\ calls[n - 2].what = "start"
                      /\ \A i \in (n - 6)..n : ~Failed(calls[i])
                      /\ is_running /\ container = "running"
                      /\ files = {})
    /\ [][(pc = "idle" /\ op' = "reset") =>
             UNCHANGED <<cfg, allow_network_access, scope>>]_vars

C20_Witness ==
    /\ op = "reset" /\ pc = "done" /\ exc = NoExc
    /\ Len(calls) = 7
    /\ is_running /\ container = "running" /\ files = {}

---------------------------------------------------------------------------
(* restart *)

\* C21: restart is the stop followed by the engine's start of the existing
\* container.  It never issues create or rm, a restart that returns ends with the
\* start right after a stop that succeeded, and every file added to the sandbox
\* before the restart is in the container after it.
C21_RestartKeepsContainer ==
    /\ [](op = "restart" /\ pc = "done" =>
            LET n == Len(calls)
            IN  /\ n >= 1 /\ IsStop(calls[1], "10")
                /\ \A i \in 1..n : calls[i].what \notin {"create", "rm"}
                /\ exc = NoExc =>
                      /\ n >= 2
                      /\ calls[n].what = "start" /\ ~Failed(calls[n])
                      /\ calls[n - 1].what = "stop" /\ ~Failed(calls[n - 1])
                      /\ container = "running")
    /\ [][(pc = "idle" /\ op' = "restart") =>
             /\ files' = files
             /\ container # "absent" => container' # "absent"]_vars

C21_Witness ==
    /\ op = "restart" /\ pc = "done" /\ exc = NoExc
    /\ container = "running" /\ files = {"file"}

---------------------------------------------------------------------------
(* run_command on a container that is not running *)

\* the errors of the library that are not the failure of the command itself
InfrastructureErrors == SandboxErrorClasses \ {"SandboxCommandError"}

\* C22: a run_command call on a sandbox whose container is not running (never
\* started, stopped, removed) raises an infrastructure error and returns no
\* CompletedCommand.
C22_NotRunningRaises ==
    (op = "run_command" /\ pc = "done" /\ container # "running") =>
        /\ result = None
        /\ exc \in InfrastructureErrors

---------------------------------------------------------------------------
(* The errors of lifecycle and file operations *)

LifecycleAndFileOperations == {"__enter__", "__exit__", "reset", "restart", "add_files"}

\* C23: whenever a lifecycle or file operation raises because an engine call
\* failed or timed out, the error is a SandboxError or one of its subclasses, and
\* it is a critical one only when the retry of the stop failed.
C23_EngineFailuresAreSandboxErrors ==
    (pc = "done" /\ op \in LifecycleAndFileOperations /\ exc # NoExc) =>
        /\ exc \in SandboxErrorClasses
        /\ exc \in CriticalClasses => BothStopAttemptsFailed

---------------------------------------------------------------------------
(* The order of the lifecycle states *)

\* the engine calls of the operation that succeeded, as pairs of positions i < j
SucceededInOrder ==
    {p \in (1..Len(calls)) \X (1..Len(calls)) :
        p[1] < p[2] /\ ~Failed(calls[p[1]]) /\ ~Failed(calls[p[2]])}

\* C24: the lifecycle states are traversed in the order Unstarted, Running,
\* Stopped, Destroyed and Destroyed is terminal: within an operation no start
\* succeeds after a stop succeeded (Stopped to Running), and no create and no start
\* succeeds after a removal succeeded (out of Destroyed).
C24_LifecycleOrder ==
    pc = "done" =>
        \A p \in SucceededInOrder :
            /\ calls[p[1]].what = "stop" => calls[p[2]].what # "start"
            /\ calls[p[1]].what = "rm" => calls[p[2]].what \notin {"create", "start"}

---------------------------------------------------------------------------
(* The network setting between starts *)

\* C25: while the sandbox is not running, an assignment of either value to
\* allow_network_access returns and stores the value; a sandbox that is outside
\* its with block with no container left, as after an exit that returned, can be
\* started; and every container an operation creates gets `--net none` if and only
\* if allow_network_access is false at that start.
C25_NetworkAccessBetweenStarts ==
    /\ (pc = "idle" /\ ~is_running) =>
          \A value \in BOOLEAN :
              ENABLED (/\ SetAllowNetworkAccess
                       /\ exc' = NoExc
                       /\ allow_network_access' = value)
    /\ (pc = "idle" /\ scope = "out" /\ container = "absent") =>
          ENABLED (Enter /\ exc' = NoExc /\ is_running' /\ container' = "running")
    /\ (pc = "done" /\ op \in {"__enter__", "reset"}) =>
          \A i \in 1..Len(calls) :
              calls[i].what = "create" =>
                  (calls[i].arg = "--net none" <=> ~allow_network_access)

C25_Witness ==
    /\ op = "__enter__" /\ pc = "done" /\ exc = NoExc
    /\ allow_network_access /\ calls[1].what = "create" /\ calls[1].arg = "net"

---------------------------------------------------------------------------
(* When a sandbox is marked as running *)

\* the last five engine calls are the setup steps in their order, none failed
SetupStepsSucceeded(cs) ==
    LET n == Len(cs)
    IN  /\ n >= 5
        /\ cs[n - 4].what = "create"
        /\ cs[n - 3].what = "cp" /\ cs[n - 3].arg = "main_process_script"
        /\ cs[n - 2].what = "start"
        /\ cs[n - 1].what = "cp" /\ cs[n - 1].arg = "cmd_runner.py"
        /\ cs[n].what = "exec" /\ cs[n].arg = "chmod 555"
        /\ \A i \in (n - 4)..n : ~Failed(cs[i])

\* a step that is the whole of a start: __enter__, or a reset that got to create
StartStep ==
    /\ pc = "idle"
    /\ \/ op' = "__enter__"
       \/ op' = "reset" /\ \E i \in 1..Len(calls') : calls'[i].what = "create"

\* C26 as stated: whenever the start raises, the sandbox is not marked as running.
C26_FailedStartNotRunning ==
    (op = "__enter__" /\ pc = "done" /\ exc # NoExc) => ~is_running

\* C26, amended: the sandbox becomes marked as running only by a start whose five
\* setup steps (create, placeholder script, engine start, runner, chmod 555) all
\* succeeded in this order and which returned; a start that returns has marked it;
\* and a start of a sandbox that was not marked as running leaves it unmarked
\* whenever it raises.
C26_RunningOnlyAfterSetup ==
    /\ [][(~is_running /\ is_running') =>
             /\ StartStep
             /\ exc' = NoExc
             /\ SetupStepsSucceeded(calls')]_vars
    /\ [][(StartStep /\ exc' = NoExc) =>
             is_running' /\ SetupStepsSucceeded(calls')]_vars
    /\ [][(StartStep /\ ~is_running /\ exc' # NoExc) => ~is_running']_vars
    /\ [][(StartStep /\ op' = "reset" /\ exc' # NoExc) => ~is_running']_vars

C26_Witness ==
    /\ op = "__enter__" /\ pc = "done"
    /\ exc = "SandboxError" /\ ~is_running
    /\ Len(calls) >= 5 /\ calls[5].what = "exec" /\ Failed(calls[5])

---------------------------------------------------------------------------
(* The runner and a target that cannot be launched *)

\* the runner has exited after Popen failed to launch the command
LaunchFailed ==
    /\ runner.at = "exited"
    /\ args.cmd_args # <<>>
    /\ ~Executable(args.cmd_args)

\* C27: when the target cannot be launched the runner does not crash: no exception
\* leaves main(); the return code it reports is 127 when the executable is not
\* found or a component of its path is not a directory; and it is nonzero, with
\* `Permission denied` on stderr, when the file is not executable.
C27_LaunchFailureReported ==
    LaunchFailed =>
        /\ main_exc = NoExc
        /\ runner_exit_status = 0
        /\ PopenError(args.cmd_args) \in {"FileNotFoundError", "NotADirectoryError"} =>
              main_return_code = Some(127)
        /\ PopenError(args.cmd_args) = "PermissionError" =>
              /\ main_return_code \notin {None, Some(0)}
              /\ HasPermissionDenied(main_stderr \o sys_stderr)

---------------------------------------------------------------------------
(* The controller's handling of its own timeout *)

\* the reaper has been called for this command, after the exec call
ReaperCalled ==
    /\ Len(calls) = 2
    /\ calls[1].what = "exec"
    /\ IsReap(calls[2], cmd.argv[2])

\* C28: when the controller's wait for the exec call expires, run_command first
\* calls the reaper with the cmd_id it gave the runner and sends no signal before
\* the reaper call is over; it then sends SIGTERM to the exec call's process group,
\* and SIGKILL after it exactly when the exec call had not exited within the second
\* that follows; and it returns only once the exec call has exited.
C28_OuterTimeoutHandling ==
    op = "run_command" =>
        /\ pc = "reap" => timed_out /\ signals = <<>> /\ Len(calls) = 1
        /\ pc = "killpg" => timed_out /\ signals = <<>> /\ ReaperCalled
        /\ (pc = "done" /\ timed_out) =>
              /\ cmd.argv[1] = "--cmd_id"
              /\ ReaperCalled
              /\ signals \in {<<"SIGTERM">>, <<"SIGTERM", "SIGKILL">>}
              /\ signals = <<"SIGTERM", "SIGKILL">> <=> exec_rc = -9
              /\ docker_exec = "exited"
        /\ (pc = "done" /\ ~timed_out) => signals = <<>> /\ Len(calls) = 1

C28_Witness ==
    /\ op = "run_command" /\ pc = "done" /\ timed_out
    /\ ReaperCalled
    /\ signals = <<"SIGTERM", "SIGKILL">>
    /\ docker_exec = "exited"

---------------------------------------------------------------------------
(* The runner's one result *)

\* C29: every invocation of the runner that got its arguments emits exactly one
\* structured result before it exits, whatever the target does: once the runner
\* has exited, its stdout is the one framed result of the target's outcome, and
\* before it exits its stdout is empty.
C29_OneResultPerInvocation ==
    args # EmptyNamespace =>
        /\ runner.at = "exited" =>
              sys_stdout = Emitted(args, main_return_code, main_timed_out, main_stdout,
                                   main_stderr)
        /\ runner.at \in {"popen", "communicate", "emit", "raised"} => sys_stdout = <<>>

---------------------------------------------------------------------------
(* The runner's own timeout *)

\* C30: on the runner's timeout SIGKILL goes to the target's whole process group,
\* so that no process of the group is left; the result is marked as timed out and
\* has no return code; and the result is emitted only after the runner has waited
\* for the killed target.
C30_RunnerTimeout ==
    /\ main_timed_out <=> killed # <<>>
    /\ main_timed_out =>
          /\ killed = <<[pgid |-> "target", signal |-> "SIGKILL"]>>
          /\ \A q \in procs : q.pgid # "target"
          /\ process.state = "exited"
          /\ main_return_code = None
          /\ runner.at \in {"emit", "exited"}
          /\ runner.at = "emit" => sys_stdout = <<>>
          /\ runner.at = "exited" =>
                sys_stdout = Emitted(args, None, TRUE, main_stdout, main_stderr)
    /\ sys_stdout # <<>> => process.state # "running"

C30_Witness ==
    /\ runner.at = "exited" /\ main_timed_out
    /\ target.forked
    /\ procs = {}
    /\ sys_stdout # <<>>

---------------------------------------------------------------------------
(* The exec invocation and the runner's parser *)

\* C31: for every run_command call the runner's parser accepts every flag the
\* controller has put on the exec invocation, the cmd id included, and the target
\* argv the runner is to launch and to echo is exactly the caller's args.
C31_RunnerAcceptsExecInvocation ==
    (cmd # NoCmd /\ runner.at = "parse_args" /\ runner.argv = cmd.argv) =>
        /\ parse_args(runner.argv).unrecognized = <<>>
        /\ parse_args(runner.argv).cmd_args = cmd.args

---------------------------------------------------------------------------
(* The reaper *)

\* the processes that started a process, up to the engine's shim
RECURSIVE StartedBy(_)
StartedBy(role) ==
    IF ParentRole(role) = "init" THEN {}
    ELSE {ParentRole(role)} \cup StartedBy(ParentRole(role))

\* the main process of the sandbox a process lives in inherits it when it is orphaned
MayDescendFrom(role) ==
    StartedBy(role)
    \cup (IF SandboxOf(role) = "a" THEN {"main_a"} \ {role}
          ELSE IF SandboxOf(role) = "b" THEN {"main_b"} \ {role}
          ELSE {})

\* the process the reaper has located
Located == RoleOf(pid_order, Val(parent_proc))

\* the processes the reaper has sent a signal
Signalled(sig) == {sent[i].pid : i \in {j \in 1..Len(sent) : sent[j].signal = sig}}

\* C32: the reaper sends signals only to descendants of the process it located:
\* never to the located process itself and never to its own process.
C32_SignalsDescendantsOnly ==
    \A i \in 1..Len(sent) :
        /\ parent_proc # None
        /\ sent[i].pid # Val(parent_proc)
        /\ sent[i].pid # getpid({Process(pid_order, "reaper", search_token)})
        /\ Located \in MayDescendFrom(RoleOf(pid_order, sent[i].pid))

C32_Witness ==
    /\ reap_pc = "exited"
    /\ parent_proc # None /\ Located = "runner_a1"
    /\ Signalled("SIGTERM") = {PidOf(pid_order, "target_a1"), PidOf(pid_order, "child_a1")}
    /\ Signalled("SIGKILL") = {PidOf(pid_order, "child_a1")}
    /\ \E p \in table : p.role = "runner_a1"

\* a process whose command line holds the token without being the reaper or one of
\* the clients that pass the token on
Targets(procs_, token) ==
    {p \in procs_ : /\ p.role \notin {"reaper", "docker_run", "exec_a0", "exec_a1"}
                    /\ \E i \in 1..Len(p.cmdline) : In(token, p.cmdline[i])}

\* C33: the process the reaper locates is the first process with an argument that
\* contains the search token, and it is never the reaper's own invocation nor a
\* wrapper command whose command line only reflects the token, whatever the order
\* in which the processes are enumerated.
C33_LocatesTheTarget ==
    reap_pc \notin {"none", "find"} =>
        /\ parent_proc # None => Located \notin {"reaper", "docker_run", "exec_a0", "exec_a1"}
        /\ parent_proc # None =>
              \A p \in Targets({Process(pid_order, role, search_token) : role \in Roles},
                               search_token) :
                  Val(parent_proc) <= p.pid

\* signals are sent one after the other: a position of sent and the positions before
Before(j) == 1..(j - 1)

\* C34: the reaper sends SIGTERM to every descendant it found, waits for at most the
\* grace period of 3 seconds, then sends SIGKILL to exactly the descendants that are
\* still alive; no process is sent SIGKILL that was not sent SIGTERM before; and the
\* reaper terminates.
C34_TermWaitKill ==
    /\ [](/\ waited <= grace_period
          /\ reap_pc \in {"wait", "kill"} \/ (reap_pc = "exited" /\ children # {}) =>
                \A p \in table : p.pid \in children => p.pid \in Signalled("SIGTERM")
          /\ Signalled("SIGKILL") # {} => waited = grace_period
          /\ Signalled("SIGKILL") \subseteq alive
          /\ alive \subseteq children
          /\ \A j \in 1..Len(sent) :
                sent[j].signal = "SIGKILL" =>
                    \E i \in Before(j) : sent[i] = [pid |-> sent[j].pid, signal |-> "SIGTERM"]
          /\ reap_pc = "exited" => \A p \in table : p.pid \notin alive)
    /\ <>(reap_pc = "exited")

C34_Witness ==
    /\ reap_pc = "exited"
    /\ waited = grace_period
    /\ Signalled("SIGTERM") = {PidOf(pid_order, "target_a1"), PidOf(pid_order, "child_a1")}
    /\ sent[Len(sent)] = [pid |-> PidOf(pid_order, "child_a1"), signal |-> "SIGKILL"]
    /\ Len(sent) = 3

\* C35: while other sandboxes run commands and are being stopped, a reap for one
\* sandbox's token (a cmd id or the main process marker) neither locates nor signals
\* a process of another sandbox or of another command invocation.
C35_ReapStaysInItsSandbox ==
    /\ parent_proc # None =>
          /\ SandboxOf(Located) # "b"
          /\ Located \notin {"docker_run_b", "reaper_b"}
          /\ search_token = cmd_id("a", "u1") => InvocationOf(Located) \in {"u1", "none"}
          /\ search_token = cmd_id("a", "u1") => Located \notin {"main_a", "orphan_a"}
    /\ \A i \in 1..Len(sent) :
          /\ SandboxOf(RoleOf(pid_order, sent[i].pid)) = "a"
          /\ search_token = cmd_id("a", "u1") =>
                InvocationOf(RoleOf(pid_order, sent[i].pid)) = "u1"

C35_Witness ==
    /\ reap_pc = "exited"
    /\ search_token = cmd_id("a", "u1")
    /\ parent_proc # None /\ Located = "runner_a1"
    /\ Len(sent) >= 2
    /\ \E p \in table : p.role = "target_a0"
    /\ \E p \in table : p.role = "main_b"
    /\ \A p \in table : p.role # "target_b1"

---------------------------------------------------------------------------
(* Teardown order *)

\* the positions of the calls of one kind in the finished operation
CallsOf(what) == {j \in 1..Len(calls) : calls[j].what = what}

\* C36: destroy attempts stop first and issues the removal only after a stop
\* attempt has succeeded; when stop raises, no removal is attempted and the
\* operation does not report the sandbox as destroyed.
C36_StopBeforeRemoval ==
    pc = "done" =>
        /\ \A j \in CallsOf("rm") :
              /\ j > 1
              /\ calls[j - 1].what = "stop"
              /\ calls[j - 1].raised = NoExc
        /\ op = "__exit__" => calls # <<>> /\ calls[1].what = "stop"
        /\ op = "reset" => calls # <<>> /\ calls[1].what = "stop"
        /\ exc = "SandboxNotStopped" =>
              /\ op = "__exit__" => CallsOf("rm") = {}
              /\ calls[Len(calls)].what = "stop"
              /\ calls[Len(calls)].raised # NoExc
        /\ (op = "__exit__" /\ exc = NoExc) =>
              /\ calls[Len(calls)].what = "rm"
              /\ calls[Len(calls)].raised = NoExc
              /\ ~is_running
              /\ container = "absent"

C36_Witness ==
    /\ pc = "done" /\ op = "__exit__" /\ exc = NoExc
    /\ Len(calls) = 4
    /\ calls[1].what = "stop" /\ calls[1].raised # NoExc
    /\ calls[2].what = "reaper"
    /\ calls[3].what = "stop" /\ calls[3].raised = NoExc
    /\ calls[4].what = "rm"

---------------------------------------------------------------------------
(* The pre-exec hook *)

\* the positions of a call among the calls the hook has made in the child
HookPositions(names) == {i \in 1..Len(preexec_calls) : preexec_calls[i].call \in names}

RlimitCalls == {"RLIMIT_NPROC", "RLIMIT_STACK", "RLIMIT_VMEM", "RLIMIT_AS"}

\* Popen has returned or raised
HookHasRun == runner.at \in {"communicate", "emit", "raised", "exited"} /\ args # EmptyNamespace

\* C37: in the child's pre-exec hook, when not as_root the group is switched before
\* the user and both are switched before any rlimit is set; when as_root neither is
\* switched.  The hook runs in the child only: launching the target changes neither
\* the identity nor the limits of the runner.
C37_HookOrder ==
    /\ runner_cred = RootCred
    /\ HookHasRun =>
          /\ args.as_root => HookPositions({"setgid", "setuid"}) = {}
          /\ \A i \in HookPositions({"setuid"}) : \E j \in HookPositions({"setgid"}) : j < i
          /\ ~args.as_root =>
                \A i \in HookPositions(RlimitCalls) :
                    /\ \E j \in HookPositions({"setgid"}) : j < i
                    /\ \E j \in HookPositions({"setuid"}) : j < i
          /\ (~args.as_root /\ target_cred # None) =>
                /\ Len(preexec_calls) >= 2
                /\ preexec_calls[1].call = "setgid"
                /\ preexec_calls[2].call = "setuid"

C37_Witness ==
    /\ runner.at = "exited" /\ args # EmptyNamespace
    /\ ~args.as_root
    /\ Len(preexec_calls) = 5
    /\ preexec_calls[3].call = "RLIMIT_NPROC"
    /\ preexec_calls[5].call = "RLIMIT_AS"
    /\ target_cred # None
    /\ Val(target_cred).uid = "autograder"
    /\ runner_cred = RootCred

\* C38: when a step of the pre-exec hook fails (the group or user switch, or the
\* setting of a requested rlimit) the target is never executed: no target runs
\* with a weaker limit or a higher privilege than the invocation requested.
C38_HookFailureIsFatal ==
    /\ main_exc = "SubprocessError" =>
          /\ target_cred = None
          /\ process.state = "none"
          /\ procs = {}
          /\ main_stdout = <<>> /\ main_stderr = <<>>
    /\ target_cred # None =>
          /\ ~args.as_root =>
                Val(target_cred).uid = "autograder" /\ Val(target_cred).gid = "autograder"
          /\ args.block_process_spawn =>
                [resource |-> "RLIMIT_NPROC", limit |-> 0] \in Val(target_cred).rlimits
          /\ args.max_stack_size # None =>
                [resource |-> "RLIMIT_STACK", limit |-> Val(args.max_stack_size)]
                    \in Val(target_cred).rlimits
          /\ args.max_virtual_memory # None =>
                [resource |-> "RLIMIT_AS", limit |-> Val(args.max_virtual_memory)]
                    \in Val(target_cred).rlimits

C38_Witness ==
    /\ runner.at = "exited"
    /\ main_exc = "SubprocessError"
    /\ args.cmd_args = <<"touch", "/">>
    /\ Len(preexec_calls) = 3
    /\ preexec_calls[3].call = "RLIMIT_NPROC"
    /\ args.max_stack_size # None
    /\ target_cred = None

---------------------------------------------------------------------------
(* The running flag *)

\* the operation that is ending has had a stop succeed or a removal complete
StopOrRemovalSucceeded(cs) ==
    \E j \in 1..Len(cs) : cs[j].what \in {"stop", "rm"} /\ cs[j].raised = NoExc

\* C39: when stop raises SandboxNotStopped the running flag is unchanged, so the
\* network-access setter keeps refusing on a sandbox that was marked running; the
\* flag is cleared only by a stop attempt that succeeded or by a completed removal.
C39_NotStoppedKeepsFlag ==
    /\ [][(pc = "idle" /\ op' = "__exit__" /\ exc' = "SandboxNotStopped") =>
              is_running' = is_running]_vars
    /\ [][(is_running /\ ~is_running') => StopOrRemovalSucceeded(calls')]_vars
    /\ [][(pc = "idle" /\ op' = "allow_network_access" /\ is_running) =>
              /\ exc' = "ValueError"
              /\ allow_network_access' = allow_network_access]_vars

C39_Witness ==
    /\ pc = "done" /\ op = "allow_network_access" /\ exc = "ValueError"
    /\ scope = "out"
    /\ is_running
    /\ container = "running"

---------------------------------------------------------------------------
(* When the reaper is called *)

\* C40: the controller calls the reaper only on failure paths and at most once per
\* call: in run_command only after its wait for the exec client has timed out, never
\* without a timeout and never when the client exited in time; in stop only after
\* the first stop attempt has failed.
C40_ReaperOnFailureOnly ==
    /\ \A j \in CallsOf("reaper") :
          IF op \in {"run_command", "add_files"}
          THEN /\ timed_out
               /\ cmd.timeout # None
               /\ calls[j].arg = "cmd_id"
               /\ CallsOf("reaper") = {j}
               /\ pc \in {"killpg", "done"}
          ELSE /\ j > 1
               /\ calls[j].arg = "main_process_script"
               /\ calls[j - 1].what = "stop"
               /\ calls[j - 1].arg = "10"
               /\ calls[j - 1].raised # NoExc
    /\ (op \in {"run_command", "add_files"} /\ pc = "done" /\ ~timed_out) =>
          CallsOf("reaper") = {}
    /\ \A j \in CallsOf("stop") :
          (calls[j].arg = "10" /\ calls[j].raised = NoExc) =>
              (j = Len(calls) \/ calls[j + 1].what # "reaper")

C40_Witness ==
    /\ op = "run_command" /\ pc = "done"
    /\ timed_out
    /\ cmd.timeout # None
    /\ CallsOf("reaper") = {2}
    /\ calls[2].raised = NoExc
    /\ result # None

=============================================================================
